---- MODULE Spec2Model ----
(***************************************************************************)
(* Portfolio reconciliation and merge store of the dividend dashboard.     *)
(*                                                                         *)
(* Three kinds of state machine share this module:                         *)
(*   ReplaySpec  calculateHoldingsFromTransactions, one transaction of the *)
(*               date-sorted list per step (utils/calculations.ts);        *)
(*   Spec        the persisted portfolio (localStorage) under the import   *)
(*               entry points: HistoricalDataImporter.importHistoricalData,*)
(*               ImportForm.handleSubmit and the usePortfolio hook;        *)
(*   ...Spec     one call of a utility function (parsers, projections,     *)
(*               time filters): Init draws the arguments, the one action   *)
(*               returns the value the code computes.                      *)
(*                                                                         *)
(* JavaScript numbers are modelled as exact rationals extended with NaN    *)
(* and the two infinities, so that a division by zero behaves as in the    *)
(* code (no exception).  Rounding of IEEE doubles is not modelled.         *)
(***************************************************************************)
EXTENDS Integers, Sequences, FiniteSets, TLC

VARIABLES
    ls,          \* localStorage: key -> Null or the JSON text stored under it
    mem,         \* usePortfolio React state: holdings, dividends, transactions
    ctx,         \* PortfolioProvider React state: holdings, transactions
    imp,         \* importHistoricalData calls in flight, one record per caller
    uuidCount,   \* number of uuidv4() values handed out so far
    hist,        \* the last completed imports, newest last (history variable)
    nImports,    \* number of imports started so far
    input,       \* calculateHoldingsFromTransactions: the argument
    sortedTransactions, \* ... the date-sorted copy
    idx,         \* ... position of the forEach in sortedTransactions
    holdingsMap, \* ... holdings by symbol, in insertion order
    rpc,         \* ... "idle", "replay" or "done"
    result,      \* ... the returned Holding[]
    fn,          \* the utility function under call ("none": no call); the
                 \* provider in use in LifecycleSpec; in OverlapSpec whether
                 \* two imports have overlapped
    args,        \* ... its arguments
    ret          \* ... <<>> until it returns, then <<the returned value>>

vars == <<ls, mem, ctx, imp, uuidCount, hist, nImports,
          input, sortedTransactions, idx, holdingsMap, rpc, result,
          fn, args, ret>>

storeVars == <<ls, mem, ctx, imp, uuidCount, hist, nImports>>

replayVars == <<input, sortedTransactions, idx, holdingsMap, rpc, result>>

callVars == <<fn, args, ret>>

----------------------------------------------------------------------------
(* Bounds of the model *)

\* longest transaction list handed to calculateHoldingsFromTransactions
MaxTx == 3

\* longest list of each stored entity handed to mergePortfolioData
MaxStored == 2

\* most data lines of a CSV file handed to a parser
MaxRows == 2

\* number of imports in one behaviour of Spec
MaxImports == 2

----------------------------------------------------------------------------
(* JavaScript numbers: rationals n/d (d > 0, lowest terms), NaN, +-Infinity *)

Abs(x) == IF x < 0 THEN -x ELSE x

RECURSIVE GCD(_, _)
GCD(a, b) == IF b = 0 THEN a ELSE GCD(b, a % b)

NaN == [k |-> "nan", n |-> 0, d |-> 1]

PInf == [k |-> "inf", n |-> 1, d |-> 1]

NInf == [k |-> "inf", n |-> -1, d |-> 1]

Rat(n, d) ==
    LET s == IF d < 0 THEN -1 ELSE 1
        g == GCD(Abs(n), Abs(d))
    IN  [k |-> "fin", n |-> (s * n) \div g, d |-> (s * d) \div g]

Fin(n) == [k |-> "fin", n |-> n, d |-> 1]

Sign(a) == IF a.n > 0 THEN 1 ELSE IF a.n < 0 THEN -1 ELSE 0

InfOf(s) == IF s > 0 THEN PInf ELSE NInf

NAdd(a, b) ==
    IF a.k = "nan" \/ b.k = "nan" THEN NaN
    ELSE IF a.k = "inf" /\ b.k = "inf" THEN (IF a.n = b.n THEN a ELSE NaN)
    ELSE IF a.k = "inf" THEN a
    ELSE IF b.k = "inf" THEN b
    ELSE Rat(a.n * b.d + b.n * a.d, a.d * b.d)

NNeg(a) == IF a.k = "nan" THEN NaN ELSE [a EXCEPT !.n = -a.n]

NSub(a, b) == NAdd(a, NNeg(b))

NMul(a, b) ==
    IF a.k = "nan" \/ b.k = "nan" THEN NaN
    ELSE IF a.k = "inf" \/ b.k = "inf"
         THEN (IF Sign(a) * Sign(b) = 0 THEN NaN ELSE InfOf(Sign(a) * Sign(b)))
    ELSE Rat(a.n * b.n, a.d * b.d)

NDiv(a, b) ==
    IF a.k = "nan" \/ b.k = "nan" THEN NaN
    ELSE IF a.k = "inf" /\ b.k = "inf" THEN NaN
    ELSE IF a.k = "inf" THEN InfOf(Sign(a) * (IF Sign(b) < 0 THEN -1 ELSE 1))
    ELSE IF b.k = "inf" THEN Fin(0)
    ELSE IF b.n = 0 THEN (IF a.n = 0 THEN NaN ELSE InfOf(Sign(a)))
    ELSE Rat(a.n * b.d, a.d * b.n)

\* a > b as JavaScript evaluates it: false when either side is NaN
NGt(a, b) ==
    IF a.k = "nan" \/ b.k = "nan" THEN FALSE
    ELSE IF a.k = "inf" /\ b.k = "inf" THEN a.n > b.n
    ELSE IF a.k = "inf" THEN a.n > 0
    ELSE IF b.k = "inf" THEN b.n < 0
    ELSE a.n * b.d > b.n * a.d

----------------------------------------------------------------------------
(* Transactions *)

\* new Date(date).getTime(): dates are <<year, month, day>>; the value is
\* monotone in the calendar date, which is all the sort reads
GetTime(date) == (date[1] * 12 + (date[2] - 1)) * 31 + date[3]

\* String.prototype.toUpperCase on the transaction types that occur
ToUpperCase(s) ==
    CASE s = "buy" -> "BUY"
      [] s = "sell" -> "SELL"
      [] s = "dividend" -> "DIVIDEND"
      [] s = "split" -> "SPLIT"
      [] OTHER -> s

Tx(id, date, type, symbol, shares, price, amount) ==
    [id |-> id, date |-> date, type |-> type, symbol |-> symbol,
     shares |-> shares, price |-> price, amount |-> amount]

Jan1 == <<2024, 1, 1>>

Feb1 == <<2024, 2, 1>>

Mar1 == <<2024, 3, 1>>

\* the transactions the replay is exercised on
TxPool ==
    << Tx("t-buy1", Jan1, "BUY", "AAPL", 10, 100, 1000),
       Tx("t-buy2", Feb1, "BUY", "AAPL", 10, 120, 1200),
       Tx("t-sell1", Mar1, "SELL", "AAPL", 5, 150, 750),
       Tx("t-sell2", Feb1, "sell", "AAPL", 25, 90, 2250),
       Tx("t-split", Feb1, "SPLIT", "AAPL", 0, 2, 0),
       Tx("t-div", Mar1, "dividend", "AAPL", 0, 0, 12),
       Tx("t-msft", Jan1, "buy", "MSFT", 3, 300, 900),
       Tx("t-cash", Feb1, "BUY", "", 7, 1, 7),
       Tx("t-free", Jan1, "BUY", "AAPL", 0, 0, 50),
       Tx("t-sell0", Jan1, "SELL", "AAPL", 5, 95, 475),
       Tx("t-split0", Mar1, "split", "AAPL", 0, 0, 0) >>

RECURSIVE SeqsNoRepeat(_, _)
\* the sequences of at most n pairwise distinct elements of S
SeqsNoRepeat(S, n) ==
    IF n = 0 THEN {<<>>}
    ELSE LET shorter == SeqsNoRepeat(S, n - 1)
             ext == {p \in shorter \X S :
                        /\ Len(p[1]) = n - 1
                        /\ \A i \in 1..Len(p[1]) : p[1][i] # p[2]}
         IN  shorter \cup {Append(p[1], p[2]) : p \in ext}

Range(s) == {s[i] : i \in 1..Len(s)}

TxLists == SeqsNoRepeat(Range(TxPool), MaxTx)

----------------------------------------------------------------------------
(* calculateHoldingsFromTransactions *)

RECURSIVE InsertByDate(_, _)
\* t placed behind every element whose time is not later than its own
InsertByDate(s, t) ==
    IF s = <<>> THEN <<t>>
    ELSE IF GetTime(s[Len(s)].date) <= GetTime(t.date) THEN Append(s, t)
    ELSE Append(InsertByDate(SubSeq(s, 1, Len(s) - 1), t), s[Len(s)])

RECURSIVE SortByDate(_)
\* [...transactions].sort((a, b) => time(a) - time(b)): ascending and stable
SortByDate(s) ==
    IF s = <<>> THEN <<>>
    ELSE InsertByDate(SortByDate(SubSeq(s, 1, Len(s) - 1)), s[Len(s)])

\* the holding created on the first transaction of a symbol
NewHolding(tx) ==
    [id |-> "uuid", symbol |-> tx.symbol, shares |-> 0,
     costBasis |-> Fin(0), totalCost |-> Fin(0), currentPrice |-> 0,
     currentValue |-> Fin(0), gain |-> Fin(0), gainPercent |-> Fin(0),
     allocation |-> Fin(0), costPerShare |-> Fin(0), lastUpdated |-> tx.date]

AverageCost(totalCost, shares) ==
    IF shares > 0 THEN NDiv(totalCost, Fin(shares)) ELSE Fin(0)

ApplyBuy(h, tx) ==
    LET totalCost == NAdd(h.totalCost, Fin(tx.amount))
        shares == h.shares + tx.shares
    IN  [h EXCEPT !.totalCost = totalCost, !.shares = shares,
                  !.costBasis = AverageCost(totalCost, shares),
                  !.costPerShare = AverageCost(totalCost, shares)]

\* a SELL that books the sale proceeds against the cost instead of the
\* proportional share of it
ApplySellByAmount(h, tx) ==
    LET totalCost == NSub(h.totalCost, Fin(tx.amount))
        shares == h.shares - tx.shares
    IN  [h EXCEPT !.totalCost = totalCost, !.shares = shares,
                  !.costBasis = AverageCost(totalCost, shares),
                  !.costPerShare = AverageCost(totalCost, shares)]

ApplySell(h, tx) ==
    LET totalCost == NMul(h.totalCost,
                          NSub(Fin(1), NDiv(Fin(tx.shares), Fin(h.shares))))
        shares == h.shares - tx.shares
    IN  [h EXCEPT !.totalCost = totalCost, !.shares = shares,
                  !.costBasis = AverageCost(totalCost, shares),
                  !.costPerShare = AverageCost(totalCost, shares)]

\* a SPLIT that multiplies the shares and leaves the per-share cost alone
ApplySplitSharesOnly(h, tx) ==
    IF tx.price > 0 THEN [h EXCEPT !.shares = h.shares * tx.price] ELSE h

ApplySplit(h, tx) ==
    IF tx.price > 0
    THEN [h EXCEPT !.shares = h.shares * tx.price,
                   !.costBasis = NDiv(h.costBasis, Fin(tx.price)),
                   !.costPerShare = NDiv(h.costBasis, Fin(tx.price))]
    ELSE h

\* the switch without toUpperCase: lower-case types fall to the default
ApplyTypeCaseSensitive(h, tx) ==
    CASE tx.type = "BUY" -> ApplyBuy(h, tx)
      [] tx.type = "SELL" -> ApplySell(h, tx)
      [] tx.type = "SPLIT" -> ApplySplit(h, tx)
      [] OTHER -> h

\* switch (type.toUpperCase())
ApplyType(h, tx) ==
    CASE ToUpperCase(tx.type) = "BUY" -> ApplyBuy(h, tx)
      [] ToUpperCase(tx.type) = "SELL" -> ApplySell(h, tx)
      [] ToUpperCase(tx.type) = "SPLIT" -> ApplySplit(h, tx)
      [] OTHER -> h

IndexOfSymbol(map, symbol) ==
    IF \E i \in 1..Len(map) : map[i].symbol = symbol
    THEN CHOOSE i \in 1..Len(map) : map[i].symbol = symbol
    ELSE 0

\* the body of sortedTransactions.forEach for one transaction
ApplyTx(map, tx) ==
    IF tx.symbol = "" THEN map
    ELSE LET m1 == IF IndexOfSymbol(map, tx.symbol) = 0
                   THEN Append(map, NewHolding(tx)) ELSE map
             i == IndexOfSymbol(m1, tx.symbol)
             h1 == ApplyType(m1[i], tx)
             h2 == IF tx.price > 0 THEN [h1 EXCEPT !.currentPrice = tx.price]
                   ELSE h1
         IN  [m1 EXCEPT ![i] = [h2 EXCEPT !.lastUpdated = tx.date]]

\* a filter that drops only the exactly-closed positions
StillHeldNonZero(map) == SelectSeq(map, LAMBDA h : h.shares # 0)

\* .filter(holding => holding.shares > 0)
StillHeld(map) == SelectSeq(map, LAMBDA h : h.shares > 0)

\* .map(...): current value and gain of one holding
Valued(h) ==
    LET currentValue == Fin(h.shares * h.currentPrice)
        gain == NSub(currentValue, h.totalCost)
    IN  [h EXCEPT !.currentValue = currentValue, !.gain = gain,
                  !.gainPercent = IF NGt(h.totalCost, Fin(0))
                                  THEN NMul(NDiv(gain, h.totalCost), Fin(100))
                                  ELSE Fin(0)]

RECURSIVE TotalValue(_)
TotalValue(hs) ==
    IF hs = <<>> THEN Fin(0) ELSE NAdd(TotalValue(Tail(hs)), hs[1].currentValue)

\* the tail of the function: filter, value, allocation percentages
FinishHoldings(map) ==
    LET valued == [i \in 1..Len(StillHeld(map)) |-> Valued(StillHeld(map)[i])]
        totalValue == TotalValue(valued)
    IN  [i \in 1..Len(valued) |->
            [valued[i] EXCEPT !.allocation =
                IF NGt(totalValue, Fin(0))
                THEN NMul(NDiv(valued[i].currentValue, totalValue), Fin(100))
                ELSE Fin(0)]]

RECURSIVE ReplayAll(_, _)
ReplayAll(map, txs) ==
    IF txs = <<>> THEN map ELSE ReplayAll(ApplyTx(map, txs[1]), Tail(txs))

calculateHoldingsFromTransactions(transactions) ==
    IF transactions = <<>> THEN <<>>
    ELSE FinishHoldings(ReplayAll(<<>>, SortByDate(transactions)))

----------------------------------------------------------------------------
(* Parse results: what detectAndParseCSV hands to the import entry points *)

\* a Holding as the positions parser builds it
Position(id, symbol, shares, price, costPerShare) ==
    [id |-> id, symbol |-> symbol, shares |-> shares,
     costBasis |-> Fin(costPerShare), totalCost |-> Fin(costPerShare * shares),
     currentPrice |-> price, currentValue |-> Fin(shares * price),
     gain |-> Fin(shares * price - costPerShare * shares),
     gainPercent |-> Fin(0), allocation |-> Fin(100),
     costPerShare |-> Fin(costPerShare), lastUpdated |-> Mar1]

Dividend(id, symbol, date, amount) ==
    [id |-> id, symbol |-> symbol, date |-> date, amount |-> amount]

ParseResult(success, fileType, holdings, dividends, transactions) ==
    [success |-> success, fileType |-> fileType, holdings |-> holdings,
     dividends |-> dividends, transactions |-> transactions]

FileNames == {"posA", "posB", "txF", "txG", "bad"}

\* the parse result of each file; ids are the deterministic ones the parsers
\* build from symbol, date and row index
Parsed(f) ==
    CASE f = "posA" ->
            ParseResult(TRUE, "holdings",
                <<Position("holding-AAPL-1", "AAPL", 5, 150, 100)>>,
                <<Dividend("dividend-AAPL-2024-03-01", "AAPL", Mar1, 12)>>,
                <<Tx("transaction-AAPL-2024-03-01", Mar1, "dividend", "AAPL",
                     0, 0, 12)>>)
      [] f = "posB" ->
            ParseResult(TRUE, "positions",
                <<Position("holding-MSFT-1", "MSFT", 3, 300, 250)>>,
                <<Dividend("dividend-MSFT-2024-02-01", "MSFT", Feb1, 9)>>,
                <<Tx("transaction-MSFT-2024-02-01", Feb1, "dividend", "MSFT",
                     0, 0, 9)>>)
      [] f = "txF" ->
            ParseResult(TRUE, "transactions",
                <<Position("holding-AAPL", "AAPL", 10, 100, 100)>>,
                <<Dividend("dividend-AAPL-2024-03-01", "AAPL", Mar1, 12)>>,
                <<Tx("transaction-AAPL-2024-01-01-1", Jan1, "BUY", "AAPL",
                     10, 100, 1000),
                  Tx("transaction-AAPL-2024-03-01-2", Mar1, "dividend", "AAPL",
                     0, 0, 12)>>)
      [] f = "txG" ->
            ParseResult(TRUE, "transactions", <<>>, <<>>,
                <<Tx("transaction-BRK-B-2024-02-01-1", Feb1, "BUY", "BRK-B",
                     2, 400, 800),
                  Tx("transaction-AAPL-2024-01-01-2", Jan1, "BUY", "AAPL",
                     10, 100, 1000)>>)
      [] OTHER ->
            ParseResult(FALSE, "none", <<>>, <<>>, <<>>)

----------------------------------------------------------------------------
(* localStorage and JSON *)

\* getItem of a key that was never set
Null == [present |-> FALSE, json |-> <<>>]

StorageKeys == {"portfolio-holdings", "portfolio-dividends",
                "portfolio-transactions"}

\* JSON.stringify writes NaN and the infinities as null
JsonNumber(x) == IF x.k = "fin" THEN x ELSE [k |-> "null", n |-> 0, d |-> 1]

JsonHolding(h) ==
    [h EXCEPT !.costBasis = JsonNumber(h.costBasis),
              !.totalCost = JsonNumber(h.totalCost),
              !.currentValue = JsonNumber(h.currentValue),
              !.gain = JsonNumber(h.gain),
              !.gainPercent = JsonNumber(h.gainPercent),
              !.allocation = JsonNumber(h.allocation),
              !.costPerShare = JsonNumber(h.costPerShare)]

\* JSON.stringify of a Holding[]
StringifyHoldings(hs) ==
    [present |-> TRUE, json |-> [i \in 1..Len(hs) |-> JsonHolding(hs[i])]]

\* JSON.stringify of a Transaction[] or DividendPayment[] (finite numbers)
Stringify(records) == [present |-> TRUE, json |-> records]

JsonParse(text) == text.json

\* key ? JSON.parse(key) : []
ParseOrEmpty(text) == IF text.present THEN JsonParse(text) ELSE <<>>

EmptyData == [holdings |-> <<>>, dividends |-> <<>>, transactions |-> <<>>]

\* a load that finds nothing, whatever is stored
LoadNothing(store) == EmptyData

\* loadExistingData
LoadExistingData(store) ==
    [holdings |-> ParseOrEmpty(store["portfolio-holdings"]),
     dividends |-> ParseOrEmpty(store["portfolio-dividends"]),
     transactions |-> ParseOrEmpty(store["portfolio-transactions"])]

----------------------------------------------------------------------------
(* Dedup keys: template literals, modelled as the token string they build *)

StrTok(str) == [t |-> "s", s |-> str, n |-> 0]

NumTok(num) == [t |-> "n", s |-> "", n |-> num]

Dash == StrTok("-")

\* a symbol as the characters it contributes to a key: a hyphen inside the
\* symbol is the same character as the separator
SymbolTokens(symbol) ==
    CASE symbol = "" -> <<>>
      [] symbol = "BRK-B" -> <<StrTok("BRK"), Dash, StrTok("B")>>
      [] OTHER -> <<StrTok(symbol)>>

NumberTokens(num) == IF num < 0 THEN <<Dash, NumTok(-num)>> ELSE <<NumTok(num)>>

DateTokens(date) ==
    <<NumTok(date[1]), Dash, NumTok(date[2]), Dash, NumTok(date[3])>>

\* `${date}-${symbol}-${type}-${price}-${shares}`
TransactionKey(t) ==
    DateTokens(t.date) \o <<Dash>> \o SymbolTokens(t.symbol) \o <<Dash>>
        \o <<StrTok(t.type)>> \o <<Dash>> \o NumberTokens(t.price)
        \o <<Dash>> \o NumberTokens(t.shares)

\* `${date}-${symbol}-${amount}`
DividendKey(d) ==
    DateTokens(d.date) \o <<Dash>> \o SymbolTokens(d.symbol) \o <<Dash>>
        \o NumberTokens(d.amount)

IdKey(r) == <<StrTok(r.id)>>

KeyOf(kind, r) ==
    CASE kind = "transaction" -> TransactionKey(r)
      [] kind = "dividend" -> DividendKey(r)
      [] OTHER -> IdKey(r)

RECURSIVE FirstByKey(_, _, _)
\* filter with a Set of seen keys: the first record of each key is kept
FirstByKey(records, kind, seen) ==
    IF records = <<>> THEN <<>>
    ELSE IF KeyOf(kind, records[1]) \in seen
    THEN FirstByKey(Tail(records), kind, seen)
    ELSE <<records[1]>> \o
         FirstByKey(Tail(records), kind, seen \cup {KeyOf(kind, records[1])})

\* a dedup on the record id instead of the composite key
RemoveDuplicateTransactionsById(transactions) ==
    FirstByKey(transactions, "id", {})

removeDuplicateTransactions(transactions) ==
    FirstByKey(transactions, "transaction", {})

removeDuplicateDividends(dividends) == FirstByKey(dividends, "dividend", {})

\* fileType === 'positions' || fileType === 'transactions' ? fileType : 'positions'
ValidFileType(fileType) ==
    IF fileType \in {"positions", "transactions"} THEN fileType ELSE "positions"

\* a merge whose 'transactions' branch takes the holdings of the file
MergeTakingNewHoldings(existingData, newData, fileType) ==
    IF fileType = "positions"
    THEN [holdings |-> newData.holdings,
          dividends |-> existingData.dividends \o newData.dividends,
          transactions |-> existingData.transactions]
    ELSE [holdings |-> newData.holdings,
          dividends |-> removeDuplicateDividends(
                            existingData.dividends \o newData.dividends),
          transactions |-> removeDuplicateTransactions(
                            existingData.transactions \o newData.transactions)]

mergePortfolioData(existingData, newData, fileType) ==
    IF fileType = "positions"
    THEN [holdings |-> newData.holdings,
          dividends |-> existingData.dividends \o newData.dividends,
          transactions |-> existingData.transactions]
    ELSE IF fileType = "transactions"
    THEN [holdings |-> existingData.holdings,
          dividends |-> removeDuplicateDividends(
                            existingData.dividends \o newData.dividends),
          transactions |-> removeDuplicateTransactions(
                            existingData.transactions \o newData.transactions)]
    ELSE existingData

\* merged[item.id] = item: an id already present keeps its place
PutById(merged, item) ==
    IF \E i \in 1..Len(merged) : merged[i].id = item.id
    THEN [i \in 1..Len(merged) |->
             IF merged[i].id = item.id THEN item ELSE merged[i]]
    ELSE Append(merged, item)

RECURSIVE PutAllById(_, _)
PutAllById(merged, items) ==
    IF items = <<>> THEN merged
    ELSE PutAllById(PutById(merged, items[1]), Tail(items))

\* usePortfolio: Object.values of the id-keyed map, in insertion order
mergeArraysById(existingArray, newArray) ==
    PutAllById(PutAllById(<<>>, existingArray), newArray)

----------------------------------------------------------------------------
(* The store: initial values *)

ReplayIdle ==
    /\ input = <<>>
    /\ sortedTransactions = <<>>
    /\ idx = 0
    /\ holdingsMap = <<>>
    /\ rpc = "idle"
    /\ result = <<>>

\* no utility function is under call
CallIdle ==
    /\ fn = "none"
    /\ args = <<>>
    /\ ret = <<>>

Procs == {1}

IdleCall == [pc |-> "idle", file |-> "none", existing |-> EmptyData,
             before |-> [k \in StorageKeys |-> Null]]

\* the provider before its load effect has run
EmptyContext == [holdings |-> <<>>, transactions |-> <<>>]

StoreInit ==
    /\ ls = [k \in StorageKeys |-> Null]
    /\ mem = EmptyData
    /\ ctx = EmptyContext
    /\ imp = [p \in Procs |-> IdleCall]
    /\ uuidCount = 0
    /\ hist = <<>>
    /\ nImports = 0

----------------------------------------------------------------------------
(* calculateHoldingsFromTransactions as a state machine *)

ReplayInit ==
    /\ StoreInit
    /\ CallIdle
    /\ input \in TxLists
    /\ sortedTransactions = <<>>
    /\ idx = 0
    /\ holdingsMap = <<>>
    /\ rpc = "idle"
    /\ result = <<>>

CanStart == rpc = "idle"

CanStep == rpc = "replay" /\ idx <= Len(sortedTransactions)

CanFinish == rpc = "replay" /\ idx > Len(sortedTransactions)

\* entry: the empty-input early return, else the sort
ReplayStart ==
    /\ CanStart
    /\ IF input = <<>>
       THEN /\ rpc' = "done"
            /\ UNCHANGED <<sortedTransactions, idx>>
       ELSE /\ rpc' = "replay"
            /\ sortedTransactions' = SortByDate(input)
            /\ idx' = 1
    /\ UNCHANGED <<input, holdingsMap, result, storeVars, callVars>>

\* one iteration of sortedTransactions.forEach
ReplayStep ==
    /\ CanStep
    /\ holdingsMap' = ApplyTx(holdingsMap, sortedTransactions[idx])
    /\ idx' = idx + 1
    /\ UNCHANGED <<input, sortedTransactions, rpc, result, storeVars, callVars>>

\* after the loop: filter, value, allocation, return
ReplayFinish ==
    /\ CanFinish
    /\ result' = FinishHoldings(holdingsMap)
    /\ rpc' = "done"
    /\ UNCHANGED <<input, sortedTransactions, idx, holdingsMap, storeVars, callVars>>

ReplayNext == ReplayStart \/ ReplayStep \/ ReplayFinish

ReplaySpec == ReplayInit /\ [][ReplayNext]_vars

----------------------------------------------------------------------------
(* Import entry points *)

UUIDs == <<"uuid-1", "uuid-2", "uuid-3", "uuid-4", "uuid-5", "uuid-6",
           "uuid-7", "uuid-8">>

Write(key, value, pre) == [key |-> key, value |-> value, pre |-> pre]

RECURSIVE ApplyWrites(_, _, _)
\* the first n setItem calls of writes, in order
ApplyWrites(store, writes, n) ==
    IF n = 0 \/ writes = <<>> THEN store
    ELSE ApplyWrites([store EXCEPT ![writes[1].key] = writes[1].value],
                     Tail(writes), n - 1)

RECURSIVE WriteEvents(_, _)
\* what happened, in program order, when the setItem after n good ones threw
\* (n = Len(writes): none threw)
WriteEvents(writes, n) ==
    IF writes = <<>> THEN <<>>
    ELSE IF n = 0 THEN writes[1].pre \o <<"throw">>
    ELSE writes[1].pre \o <<"write">> \o WriteEvents(Tail(writes), n - 1)

\* one completed import, as the history keeps it
Completed(path, file, fileType, ok, before, after, events) ==
    [path |-> path, file |-> file, fileType |-> fileType, ok |-> ok,
     before |-> before, after |-> after, events |-> events]

Remember(rec) == IF Len(hist) = 2 THEN <<hist[2], rec>> ELSE Append(hist, rec)

NoCallInFlight == \A p \in Procs : imp[p].pc = "idle"

\* importHistoricalData up to its first await: detectAndParseCSV is pending
ImportStart(p, f) ==
    /\ NoCallInFlight
    /\ nImports < MaxImports
    /\ nImports' = nImports + 1
    /\ imp' = [imp EXCEPT ![p] = [pc |-> "parsing", file |-> f,
                                  existing |-> EmptyData, before |-> ls]]
    /\ UNCHANGED <<ls, mem, uuidCount, hist, ctx, replayVars, callVars>>

\* the parse has settled: a failure is thrown to the catch block, a success
\* runs on through loadExistingData to the second await
ParseReturn(p) ==
    /\ imp[p].pc = "parsing"
    /\ IF ~Parsed(imp[p].file).success
       THEN /\ imp' = [imp EXCEPT ![p] = IdleCall]
            /\ hist' = Remember(Completed("importer", imp[p].file, "none",
                            FALSE, imp[p].before, ls, <<"parse-failed">>))
       ELSE /\ imp' = [imp EXCEPT ![p].pc = "loaded",
                                  ![p].existing = LoadExistingData(ls)]
            /\ UNCHANGED hist
    /\ UNCHANGED <<ls, mem, uuidCount, nImports, ctx, replayVars, callVars>>

\* saveData: the three setItem calls, in this order
SaveWrites(data) ==
    << Write("portfolio-holdings", StringifyHoldings(data.holdings),
             <<>>),
       Write("portfolio-dividends", Stringify(data.dividends), <<>>),
       Write("portfolio-transactions", Stringify(data.transactions), <<>>) >>

\* the rest of importHistoricalData: merge, saveData, return; the setItem
\* after `good` successful ones throws (good = 3: none does)
MergeAndSave(p, good) ==
    /\ imp[p].pc = "loaded"
    /\ LET parsed == Parsed(imp[p].file)
           fileType == ValidFileType(parsed.fileType)
           merged == mergePortfolioData(imp[p].existing, parsed, fileType)
           writes == SaveWrites(merged)
       IN  /\ good \in 0..Len(writes)
           /\ ls' = ApplyWrites(ls, writes, good)
           /\ hist' = Remember(Completed("importer", imp[p].file, fileType,
                          good = Len(writes), imp[p].before, ls',
                          <<"parse", "load", "merge">>
                              \o WriteEvents(writes, good)))
    /\ imp' = [imp EXCEPT ![p] = IdleCall]
    /\ UNCHANGED <<mem, uuidCount, nImports, ctx, replayVars, callVars>>

\* csvDetector.ts: isTransactionHistory ? 'transactions' : 'positions'
DetectedFileType(f) ==
    IF Parsed(f).fileType = "transactions" THEN "transactions" ELSE "positions"

\* ImportForm.handleSubmit: the setItem calls it makes, each with the reads
\* that precede it
SubmitWrites(store, f) ==
    (IF DetectedFileType(f) = "positions"
     THEN <<Write("portfolio-holdings", StringifyHoldings(Parsed(f).holdings),
                  <<>>)>>
     ELSE <<>>)
    \o << Write("portfolio-dividends",
                Stringify(ParseOrEmpty(store["portfolio-dividends"])
                          \o Parsed(f).dividends),
                <<"load", "merge">>),
          Write("portfolio-transactions",
                Stringify(ParseOrEmpty(store["portfolio-transactions"])
                          \o Parsed(f).transactions),
                <<"load", "merge">>) >>

\* ImportForm.handleSubmit from the settled parse to its return
SubmitImport(f, good) ==
    /\ NoCallInFlight
    /\ nImports < MaxImports
    /\ nImports' = nImports + 1
    /\ IF ~Parsed(f).success
       THEN /\ good = 0
            /\ hist' = Remember(Completed("submit", f, "none", FALSE, ls, ls,
                                          <<"parse-failed">>))
            /\ UNCHANGED ls
       ELSE LET writes == SubmitWrites(ls, f)
            IN  /\ good \in 0..Len(writes)
                /\ ls' = ApplyWrites(ls, writes, good)
                /\ hist' = Remember(Completed("submit", f, DetectedFileType(f),
                               good = Len(writes), ls, ls',
                               <<"parse">> \o WriteEvents(writes, good)))
    /\ UNCHANGED <<mem, imp, uuidCount, ctx, replayVars, callVars>>

\* the rows of a positions file as handleImport maps them: id: uuidv4()
MappedHoldings(f, used) ==
    [i \in 1..Len(Parsed(f).holdings) |->
        [Parsed(f).holdings[i] EXCEPT !.id = UUIDs[used + i]]]

\* ImportForm.handleImport, holdings branch, with usePortfolio.addHoldings
HookImportHoldings(f) ==
    /\ NoCallInFlight
    /\ nImports < MaxImports
    /\ nImports' = nImports + 1
    /\ Parsed(f).fileType # "transactions"
    /\ IF ~Parsed(f).success
       THEN /\ hist' = Remember(Completed("hook", f, "none", FALSE, ls, ls,
                                          <<"parse-failed">>))
            /\ UNCHANGED <<ls, mem, uuidCount>>
       ELSE LET validHoldings == MappedHoldings(f, uuidCount)
                merged == mergeArraysById(mem.holdings, validHoldings)
            IN  /\ uuidCount + Len(validHoldings) <= Len(UUIDs)
                /\ uuidCount' = uuidCount + Len(validHoldings)
                /\ mem' = [mem EXCEPT !.holdings = merged]
                /\ ls' = [ls EXCEPT !["portfolio-holdings"] =
                                        StringifyHoldings(merged)]
                /\ hist' = Remember(Completed("hook", f, "positions", TRUE,
                               ls, ls', <<"parse", "merge", "write">>))
    /\ UNCHANGED <<imp, ctx, replayVars, callVars>>

\* usePortfolio's load effect on mount (a page load)
Reload ==
    /\ NoCallInFlight
    /\ mem' = LoadExistingData(ls)
    /\ mem' # mem
    /\ UNCHANGED <<ls, imp, uuidCount, hist, nImports, ctx, replayVars, callVars>>

Init == StoreInit /\ ReplayIdle /\ CallIdle

Next ==
    \/ \E p \in Procs, f \in FileNames : ImportStart(p, f)
    \/ \E p \in Procs : ParseReturn(p)
    \/ \E p \in Procs, good \in 0..3 : MergeAndSave(p, good)
    \/ \E f \in FileNames, good \in 0..3 : SubmitImport(f, good)
    \/ \E f \in FileNames : HookImportHoldings(f)
    \/ Reload

Spec == Init /\ [][Next]_vars

----------------------------------------------------------------------------
(* Properties of the replay *)

Symbols == {"AAPL", "MSFT"}

RECURSIVE SumShares(_, _, _)
\* the shares of the transactions of txs with this symbol and (upper-cased) type
SumShares(txs, symbol, type) ==
    IF txs = <<>> THEN 0
    ELSE (IF txs[1].symbol = symbol /\ ToUpperCase(txs[1].type) = type
          THEN txs[1].shares ELSE 0) + SumShares(Tail(txs), symbol, type)

NetShares(txs, symbol) ==
    SumShares(txs, symbol, "BUY") - SumShares(txs, symbol, "SELL")

HasType(txs, symbol, type) ==
    \E i \in 1..Len(txs) :
        txs[i].symbol = symbol /\ ToUpperCase(txs[i].type) = type

HoldingsOf(hs, symbol) == {i \in 1..Len(hs) : hs[i].symbol = symbol}

\* C8: for a symbol without SPLIT whose BUY shares exceed its SELL shares,
\* the returned holding carries exactly sum(BUY shares) - sum(SELL shares)
C8_ShareConservation ==
    rpc = "done" =>
        \A s \in Symbols :
            (~HasType(input, s, "SPLIT") /\ NetShares(input, s) > 0) =>
                /\ Cardinality(HoldingsOf(result, s)) = 1
                /\ \A i \in HoldingsOf(result, s) :
                       result[i].shares = NetShares(input, s)

\* a finished replay of a BUY and a SELL of AAPL, the SELL dated first
C8_Witness ==
    /\ rpc = "done"
    /\ HasType(input, "AAPL", "BUY") /\ HasType(input, "AAPL", "SELL")
    /\ ~HasType(input, "AAPL", "SPLIT")
    /\ sortedTransactions # <<>> /\ sortedTransactions[1].type = "SELL"
    /\ NetShares(input, "AAPL") > 0
    /\ \E i \in HoldingsOf(result, "AAPL") : result[i].shares = 5

IsPermutationOf(a, b) ==
    /\ Len(a) = Len(b)
    /\ Range(a) = Range(b)
    /\ Cardinality(Range(a)) = Len(a)

Scenario == <<TxPool[1], TxPool[2], TxPool[3]>>

\* C9: BUY 10 (1000), BUY 10 (1200), SELL 5 @150, in any input order, give
\* the single holding AAPL: 15 shares, totalCost 1650, costPerShare 110,
\* gain = currentValue - 1650
C9_Scenario ==
    (rpc = "done" /\ IsPermutationOf(input, Scenario)) =>
        /\ Len(result) = 1
        /\ result[1].symbol = "AAPL"
        /\ result[1].shares = 15
        /\ result[1].totalCost = Fin(1650)
        /\ result[1].costPerShare = Fin(110)
        /\ result[1].gain = NSub(result[1].currentValue, Fin(1650))

\* the scenario given newest first, replayed to the end
C9_Witness ==
    /\ rpc = "done"
    /\ input = <<TxPool[3], TxPool[2], TxPool[1]>>
    /\ Len(result) = 1
    /\ result[1].currentValue = Fin(2250)

\* C10: an over-sell is never rejected: until it has returned the replay
\* can always take its next step (no transaction stops it), every returned
\* holding has shares > 0, and a symbol is returned exactly when its share
\* count after the whole replay is > 0
C10_OverSellAbsorbed ==
    /\ rpc # "done" => (CanStart \/ CanStep \/ CanFinish)
    /\ (rpc = "done" /\ input # <<>>) =>
          /\ \A i \in 1..Len(result) : result[i].shares > 0
          /\ \A s \in Symbols \cup {""} :
                 (HoldingsOf(result, s) # {}) <=>
                 (\E i \in HoldingsOf(holdingsMap, s) : holdingsMap[i].shares > 0)

\* AAPL sold short of its holdings and dropped, MSFT returned
C10_Witness ==
    /\ rpc = "done"
    /\ \E i \in HoldingsOf(holdingsMap, "AAPL") : holdingsMap[i].shares < 0
    /\ HoldingsOf(result, "AAPL") = {}
    /\ HoldingsOf(result, "MSFT") # {}

----------------------------------------------------------------------------
(* Properties of the store *)

StoredHoldings(store) == ParseOrEmpty(store["portfolio-holdings"])

StoredDividends(store) == ParseOrEmpty(store["portfolio-dividends"])

StoredTransactions(store) == ParseOrEmpty(store["portfolio-transactions"])

\* the five fields two transactions must share to be the same event
TxFields(t) == <<t.date, t.symbol, t.type, t.price, t.shares>>

\* the three fields two dividend payments must share to be the same event
DivTriple(d) == <<d.date, d.symbol, d.amount>>

TxFieldsOf(txs) == {TxFields(txs[i]) : i \in 1..Len(txs)}

DivTriplesOf(ds) == {DivTriple(ds[i]) : i \in 1..Len(ds)}

\* a holding without its id and timestamp
HoldingCore(h) ==
    [symbol |-> h.symbol, shares |-> h.shares, totalCost |-> h.totalCost,
     costPerShare |-> h.costPerShare, currentPrice |-> h.currentPrice,
     currentValue |-> h.currentValue, gain |-> h.gain]

HoldingCoresOf(hs) == {HoldingCore(hs[i]) : i \in 1..Len(hs)}

Last == hist[Len(hist)]

\* the last two imports both succeeded, back to back
TwoGoodImports ==
    /\ Len(hist) = 2
    /\ hist[1].ok /\ hist[2].ok
    /\ hist[2].before = hist[1].after

\* C1: importing the same file a second time (same entry point) leaves the
\* stored transactions and dividends as the first import left them
C1_MergeIdempotent ==
    (TwoGoodImports /\ hist[1].file = hist[2].file
                    /\ hist[1].path = hist[2].path) =>
        /\ StoredTransactions(hist[2].after) = StoredTransactions(hist[1].after)
        /\ StoredDividends(hist[2].after) = StoredDividends(hist[1].after)

\* C2: the stored dividends never hold two payments with one
\* (date, symbol, amount) triple
C2_NoDuplicateDividends ==
    \A i, j \in 1..Len(StoredDividends(ls)) :
        i < j => DivTriple(StoredDividends(ls)[i])
                     # DivTriple(StoredDividends(ls)[j])

\* C3: after positions file A and then positions file B the stored holdings
\* are exactly B's, and the stored dividends are those of A, of B and those
\* stored before
C3_SnapshotReplace ==
    (TwoGoodImports /\ hist[1].fileType = "positions"
                    /\ hist[2].fileType = "positions") =>
        /\ HoldingCoresOf(StoredHoldings(hist[2].after))
              = HoldingCoresOf(Parsed(hist[2].file).holdings)
        /\ Len(StoredHoldings(hist[2].after))
              = Len(Parsed(hist[2].file).holdings)
        /\ DivTriplesOf(StoredDividends(hist[2].after))
              = DivTriplesOf(StoredDividends(hist[1].before))
                  \cup DivTriplesOf(Parsed(hist[1].file).dividends)
                  \cup DivTriplesOf(Parsed(hist[2].file).dividends)

\* the last completed call was a successful importHistoricalData of a
\* transactions file
MergedTransactionsFile ==
    /\ hist # <<>>
    /\ Last.path = "importer" /\ Last.ok /\ Last.fileType = "transactions"

C5_FailedImportUnchanged ==
    \A i \in 1..Len(hist) : ~hist[i].ok => hist[i].after = hist[i].before

\* C6: within one import no setItem comes before the parse, a read of the
\* stored state or a merge
C6_WriteAfterMerge ==
    \A r \in 1..Len(hist) :
        \A i, j \in 1..Len(hist[r].events) :
            i < j => ~(/\ hist[r].events[i] = "write"
                       /\ hist[r].events[j] \in {"parse", "load", "merge"})

\* C7: after a successful import of a transactions file every stored holding
\* of a symbol that has stored transactions is the one the replay of the
\* stored transactions yields
C7_StoredHoldingsAreDerived ==
    (hist # <<>> /\ Last.ok /\ Last.fileType = "transactions") =>
        LET txs == StoredTransactions(Last.after)
            hs == StoredHoldings(Last.after)
            derived == calculateHoldingsFromTransactions(txs)
        IN  \A i \in 1..Len(hs) :
                (\E k \in 1..Len(txs) : txs[k].symbol = hs[i].symbol) =>
                    HoldingCore(hs[i]) \in HoldingCoresOf(derived)

----------------------------------------------------------------------------
(* The SELL step of the replay *)

\* the next forEach iteration is a SELL of fewer shares than are held
SellOfFewer ==
    /\ CanStep
    /\ ToUpperCase(sortedTransactions[idx].type) = "SELL"
    /\ IndexOfSymbol(holdingsMap, sortedTransactions[idx].symbol) # 0
    /\ holdingsMap[IndexOfSymbol(holdingsMap, sortedTransactions[idx].symbol)]
           .shares > sortedTransactions[idx].shares

\* C20: a SELL of fewer shares than are held leaves costPerShare the value it
\* was (a NaN stays NaN), and totalCost is then costPerShare times the
\* remaining shares
C20_SellKeepsCostPerShare ==
    [][(SellOfFewer /\ idx' = idx + 1) =>
        LET i == IndexOfSymbol(holdingsMap, sortedTransactions[idx].symbol)
        IN  /\ holdingsMap'[i].costPerShare = holdingsMap[i].costPerShare
            /\ holdingsMap'[i].totalCost
                  = NMul(holdingsMap'[i].costPerShare,
                         Fin(holdingsMap'[i].shares))]_vars

\* the replay has just sold 5 of 20 AAPL shares bought for 2200: 15 are left
\* at 110 a share
C20_Witness ==
    /\ rpc = "replay" /\ idx > 1
    /\ ToUpperCase(sortedTransactions[idx - 1].type) = "SELL"
    /\ \E i \in 1..Len(holdingsMap) :
          /\ holdingsMap[i].symbol = sortedTransactions[idx - 1].symbol
          /\ holdingsMap[i].shares = 15
          /\ holdingsMap[i].costPerShare = Fin(110)
          /\ holdingsMap[i].totalCost = Fin(1650)

----------------------------------------------------------------------------
(* mergePortfolioData as one call *)

StoredHoldingPool ==
    {Parsed("posA").holdings[1], Parsed("posB").holdings[1],
     Parsed("txF").holdings[1]}

StoredDividendPool ==
    {Parsed("posA").dividends[1], Parsed("posB").dividends[1]}

StoredTransactionPool ==
    Range(Parsed("txF").transactions) \cup Range(Parsed("txG").transactions)

\* what loadExistingData can hand to the merge
ExistingDataChoices ==
    {[holdings |-> hs, dividends |-> ds, transactions |-> ts] :
        hs \in SeqsNoRepeat(StoredHoldingPool, MaxStored),
        ds \in SeqsNoRepeat(StoredDividendPool, MaxStored),
        ts \in SeqsNoRepeat(StoredTransactionPool, MaxStored)}

MergeInit ==
    /\ StoreInit /\ ReplayIdle
    /\ fn = "mergePortfolioData"
    /\ args \in {[existingData |-> e, newData |-> Parsed(f), fileType |-> t] :
                    e \in ExistingDataChoices,
                    f \in FileNames \ {"bad"},
                    t \in {"positions", "transactions"}}
    /\ ret = <<>>

MergeCall ==
    /\ fn = "mergePortfolioData" /\ ret = <<>>
    /\ ret' = <<mergePortfolioData(args.existingData, args.newData,
                                   args.fileType)>>
    /\ UNCHANGED <<fn, args, storeVars, replayVars>>

MergeSpec == MergeInit /\ [][MergeCall]_vars

\* C19: a merge with fileType 'transactions' returns the existing holdings,
\* element for element, whatever holdings the file carries
C19_TransactionsMergeKeepsHoldings ==
    (fn = "mergePortfolioData" /\ ret # <<>>
         /\ args.fileType = "transactions") =>
        ret[1].holdings = args.existingData.holdings

\* a merge that returned two existing holdings in their order although the
\* file carried another one
C19_Witness ==
    /\ fn = "mergePortfolioData" /\ ret # <<>>
    /\ args.fileType = "transactions"
    /\ Len(args.existingData.holdings) = 2
    /\ args.newData.holdings # <<>>
    /\ args.newData.holdings # args.existingData.holdings
    /\ ret[1].holdings = args.existingData.holdings

----------------------------------------------------------------------------
(* utils/timeFilters.ts.  Dates are calendar days <<year, month, day>> of  *)
(* the browser's time zone; the time of day is not modelled.               *)

TimePeriods == {"MTD", "QTD", "YTD", "Prior Year", "Custom"}

MonthNames ==
    <<"January", "February", "March", "April", "May", "June", "July",
      "August", "September", "October", "November", "December">>

\* toLocaleString('default', { month: 'long' })
ToLocaleMonth(date) == MonthNames[date[2]]

\* a Date that is null
NoDate == <<>>

\* now is new Date(); the 'Custom' and default cases return two nulls
getDateRangeForTimePeriod(timePeriod, now) ==
    CASE timePeriod = "MTD" ->
            [startDate |-> <<now[1], now[2], 1>>, endDate |-> now]
      [] timePeriod = "QTD" ->
            [startDate |-> <<now[1], ((now[2] - 1) \div 3) * 3 + 1, 1>>,
             endDate |-> now]
      [] timePeriod = "YTD" ->
            [startDate |-> <<now[1], 1, 1>>, endDate |-> now]
      [] timePeriod = "Prior Year" ->
            [startDate |-> <<now[1] - 1, 1, 1>>,
             endDate |-> <<now[1] - 1, 12, 31>>]
      [] OTHER -> [startDate |-> NoDate, endDate |-> NoDate]

\* the range test of the second filter callback
InDateRange(date, range) ==
    IF range.startDate # NoDate /\ range.endDate # NoDate
    THEN /\ GetTime(date) >= GetTime(range.startDate)
         /\ GetTime(date) <= GetTime(range.endDate)
    ELSE IF range.startDate # NoDate
    THEN GetTime(date) >= GetTime(range.startDate)
    ELSE IF range.endDate # NoDate
    THEN GetTime(date) <= GetTime(range.endDate)
    ELSE TRUE

\* a custom filter that also wants the record to be of the current year
FilterByMonthOfThisYear(records, timePeriod, selectedMonths, now) ==
    IF records = <<>> \/ timePeriod = "none" THEN records
    ELSE IF timePeriod = "Custom" /\ selectedMonths # <<>>
    THEN SelectSeq(records,
             LAMBDA r : /\ ToLocaleMonth(r.date) \in Range(selectedMonths)
                        /\ r.date[1] = now[1])
    ELSE LET range == getDateRangeForTimePeriod(timePeriod, now)
         IN  IF range.startDate = NoDate /\ range.endDate = NoDate
             THEN records
             ELSE SelectSeq(records, LAMBDA r : InDateRange(r.date, range))

\* the body shared by filterTransactionsByTimePeriod and
\* filterDividendsByTimePeriod; timePeriod "none" and selectedMonths <<>>
\* stand for arguments left undefined
FilterByTimePeriod(records, timePeriod, selectedMonths, now) ==
    IF records = <<>> \/ timePeriod = "none" THEN records
    ELSE IF timePeriod = "Custom" /\ selectedMonths # <<>>
    THEN SelectSeq(records,
             LAMBDA r : ToLocaleMonth(r.date) \in Range(selectedMonths))
    ELSE LET range == getDateRangeForTimePeriod(timePeriod, now)
         IN  IF range.startDate = NoDate /\ range.endDate = NoDate
             THEN records
             ELSE SelectSeq(records, LAMBDA r : InDateRange(r.date, range))

filterTransactionsByTimePeriod(transactions, timePeriod, selectedMonths, now) ==
    FilterByTimePeriod(transactions, timePeriod, selectedMonths, now)

filterDividendsByTimePeriod(dividends, timePeriod, selectedMonths, now) ==
    FilterByTimePeriod(dividends, timePeriod, selectedMonths, now)

RECURSIVE SumAmount(_)
\* .reduce((sum, r) => sum + r.amount, 0)
SumAmount(records) ==
    IF records = <<>> THEN 0
    ELSE records[1].amount + SumAmount(Tail(records))

\* a BUY/SELL selection that compares the type as it is written
AmountOfTypeCaseSensitive(transactions, type) ==
    SumAmount(SelectSeq(transactions, LAMBDA tx : tx.type = type))

\* .filter(tx => tx.type.toUpperCase() === type).reduce(...)
AmountOfType(transactions, type) ==
    SumAmount(SelectSeq(transactions, LAMBDA tx : ToUpperCase(tx.type) = type))

calculateTimeFilteredPortfolioMetrics(holdings, transactions, dividends, timePeriod, selectedMonths, now) ==
    LET filteredTransactions ==
            filterTransactionsByTimePeriod(transactions, timePeriod,
                                           selectedMonths, now)
        filteredDividends ==
            filterDividendsByTimePeriod(dividends, timePeriod,
                                        selectedMonths, now)
        periodIncome == SumAmount(filteredDividends)
        buys == AmountOfType(filteredTransactions, "BUY")
        sells == AmountOfType(filteredTransactions, "SELL")
    IN  [filteredHoldings |-> holdings,
         filteredTransactions |-> filteredTransactions,
         filteredDividends |-> filteredDividends,
         periodIncome |-> periodIncome,
         periodGain |-> sells - buys + periodIncome]

\* transactions of several years, types in both cases
FilterTxPool ==
    { Tx("f-buy", <<2024, 3, 5>>, "BUY", "AAPL", 10, 100, 1000),
      Tx("f-sell", <<2023, 3, 20>>, "sell", "AAPL", 5, 150, 750),
      Tx("f-buy2", <<2024, 2, 10>>, "buy", "MSFT", 3, 300, 900),
      Tx("f-sell2", <<2024, 1, 15>>, "SELL", "MSFT", 1, 475, 475),
      Tx("f-div", <<2023, 12, 31>>, "dividend", "AAPL", 0, 0, 12) }

FilterDividendPool ==
    { Dividend("d-1", "AAPL", <<2024, 3, 1>>, 12),
      Dividend("d-2", "AAPL", <<2023, 3, 1>>, 11),
      Dividend("d-3", "MSFT", <<2024, 2, 1>>, 9) }

SelectedMonthsChoices ==
    {<<>>, <<"March">>, <<"February", "December">>, <<"July">>}

NowChoices == {<<2024, 3, 10>>, <<2024, 5, 20>>}

FilterInit ==
    /\ StoreInit /\ ReplayIdle
    /\ fn = "calculateTimeFilteredPortfolioMetrics"
    /\ args \in {[holdings |-> Parsed("posA").holdings, transactions |-> ts,
                  dividends |-> ds, timePeriod |-> tp, selectedMonths |-> sm,
                  now |-> now] :
                    ts \in SeqsNoRepeat(FilterTxPool, MaxTx),
                    ds \in SeqsNoRepeat(FilterDividendPool, MaxStored),
                    tp \in TimePeriods \cup {"none"},
                    sm \in SelectedMonthsChoices,
                    now \in NowChoices}
    /\ ret = <<>>

FilterCall ==
    /\ fn = "calculateTimeFilteredPortfolioMetrics" /\ ret = <<>>
    /\ ret' = <<calculateTimeFilteredPortfolioMetrics(args.holdings,
                    args.transactions, args.dividends, args.timePeriod,
                    args.selectedMonths, args.now)>>
    /\ UNCHANGED <<fn, args, storeVars, replayVars>>

FilterSpec == FilterInit /\ [][FilterCall]_vars

FilterReturned == fn = "calculateTimeFilteredPortfolioMetrics" /\ ret # <<>>

\* the amounts of the records of a set
RECURSIVE SetAmount(_)
SetAmount(S) ==
    IF S = {} THEN 0
    ELSE LET r == CHOOSE r \in S : TRUE IN r.amount + SetAmount(S \ {r})

\* C17: periodIncome is the sum of the filtered dividends' amounts, and
\* periodGain is the filtered SELL amounts minus the filtered BUY amounts
\* plus periodIncome, the type read without regard to case
C17_PeriodSums ==
    FilterReturned =>
        LET txs == Range(ret[1].filteredTransactions)
            sold == {t \in txs : t.type \in {"SELL", "sell"}}
            bought == {t \in txs : t.type \in {"BUY", "buy"}}
        IN  /\ ret[1].periodIncome = SetAmount(Range(ret[1].filteredDividends))
            /\ ret[1].periodGain
                  = SetAmount(sold) - SetAmount(bought) + ret[1].periodIncome

\* a result whose filtered transactions hold a lower-case buy, a lower-case
\* sell and an upper-case one, with dividends in the period
C17_Witness ==
    /\ FilterReturned
    /\ \E a, b, c \in Range(ret[1].filteredTransactions) :
          a.type = "buy" /\ b.type = "sell" /\ c.type = "BUY"
    /\ ret[1].filteredDividends # <<>>
    /\ ret[1].periodGain = 750 - 1000 - 900 + ret[1].periodIncome

\* record r of the argument list is in the filtered list
Kept(r, filtered) == r \in Range(filtered)

\* C18 as stated: with period Custom a record is in the result iff the month
\* name of its date is in customMonths, for every customMonths, the empty
\* list included
C18_CustomMonthsAnyList ==
    (FilterReturned /\ args.timePeriod = "Custom") =>
        /\ \A t \in Range(args.transactions) :
              Kept(t, ret[1].filteredTransactions)
                  <=> ToLocaleMonth(t.date) \in Range(args.selectedMonths)
        /\ \A d \in Range(args.dividends) :
              Kept(d, ret[1].filteredDividends)
                  <=> ToLocaleMonth(d.date) \in Range(args.selectedMonths)

\* C18 amended: with period Custom and a non-empty customMonths a record is
\* in the result iff the month name of its date is in customMonths, whatever
\* its year; with an empty customMonths every record is in the result
C18_CustomMonths ==
    (FilterReturned /\ args.timePeriod = "Custom") =>
        /\ Range(ret[1].filteredTransactions) \subseteq Range(args.transactions)
        /\ Range(ret[1].filteredDividends) \subseteq Range(args.dividends)
        /\ \A t \in Range(args.transactions) :
              Kept(t, ret[1].filteredTransactions)
                  <=> \/ args.selectedMonths = <<>>
                      \/ ToLocaleMonth(t.date) \in Range(args.selectedMonths)
        /\ \A d \in Range(args.dividends) :
              Kept(d, ret[1].filteredDividends)
                  <=> \/ args.selectedMonths = <<>>
                      \/ ToLocaleMonth(d.date) \in Range(args.selectedMonths)

\* a Custom filter on March kept the March transactions of 2023 and of 2024
\* and dropped the February one
C18_Witness ==
    /\ FilterReturned /\ args.timePeriod = "Custom"
    /\ args.selectedMonths = <<"March">>
    /\ \E a, b \in Range(ret[1].filteredTransactions) :
          a.date[1] = 2023 /\ b.date[1] = 2024
    /\ \E c \in Range(args.transactions) :
          c.date[2] = 2 /\ ~Kept(c, ret[1].filteredTransactions)

----------------------------------------------------------------------------
(* JavaScript strings, as far as the parsers use them *)

LowerLetters == "abcdefghijklmnopqrstuvwxyz"

UpperLetters == "ABCDEFGHIJKLMNOPQRSTUVWXYZ"

Digits == "0123456789"

CharAt(s, i) == SubSeq(s, i, i)

\* position of the one-character string c in alphabet, 0 when absent
IndexIn(alphabet, c) ==
    IF \E i \in 1..Len(alphabet) : CharAt(alphabet, i) = c
    THEN CHOOSE i \in 1..Len(alphabet) : CharAt(alphabet, i) = c
    ELSE 0

RECURSIVE MapChars(_, _, _)
\* s with every character of from replaced by the one at its place in to
MapChars(s, from, to) ==
    IF Len(s) = 0 THEN ""
    ELSE (IF IndexIn(from, CharAt(s, 1)) = 0 THEN CharAt(s, 1)
          ELSE CharAt(to, IndexIn(from, CharAt(s, 1))))
         \o MapChars(SubSeq(s, 2, Len(s)), from, to)

\* String.prototype.toLowerCase
StrToLowerCase(s) == MapChars(s, UpperLetters, LowerLetters)

\* String.prototype.toUpperCase
StrToUpperCase(s) == MapChars(s, LowerLetters, UpperLetters)

\* String.prototype.includes
StrIncludes(s, t) ==
    \E i \in 1..(Len(s) - Len(t) + 1) : SubSeq(s, i, i + Len(t) - 1) = t

RECURSIVE TrimStart(_)
TrimStart(s) ==
    IF Len(s) > 0 /\ CharAt(s, 1) = " " THEN TrimStart(SubSeq(s, 2, Len(s)))
    ELSE s

RECURSIVE TrimEnd(_)
TrimEnd(s) ==
    IF Len(s) > 0 /\ CharAt(s, Len(s)) = " "
    THEN TrimEnd(SubSeq(s, 1, Len(s) - 1))
    ELSE s

\* String.prototype.trim
StrTrim(s) == TrimEnd(TrimStart(s))

RECURSIVE SplitFrom(_, _, _, _)
\* the pieces of s from position i on, cell being the piece begun so far
SplitFrom(s, seps, i, cell) ==
    IF i > Len(s) THEN <<cell>>
    ELSE IF IndexIn(seps, CharAt(s, i)) # 0
    THEN <<cell>> \o SplitFrom(s, seps, i + 1, "")
    ELSE SplitFrom(s, seps, i + 1, cell \o CharAt(s, i))

\* String.prototype.split on any one character of seps
StrSplit(s, seps) == SplitFrom(s, seps, 1, "")

RECURSIVE DigitsValue(_, _)
\* the value of the digit string s appended to the value acc
DigitsValue(s, acc) ==
    IF Len(s) = 0 THEN acc
    ELSE DigitsValue(SubSeq(s, 2, Len(s)),
                     acc * 10 + (IndexIn(Digits, CharAt(s, 1)) - 1))

RECURSIVE DigitPrefix(_)
\* the longest prefix of s made of digits
DigitPrefix(s) ==
    IF Len(s) > 0 /\ IndexIn(Digits, CharAt(s, 1)) # 0
    THEN CharAt(s, 1) \o DigitPrefix(SubSeq(s, 2, Len(s)))
    ELSE ""

RECURSIVE Pow10(_)
Pow10(n) == IF n = 0 THEN 1 ELSE 10 * Pow10(n - 1)

\* parseFloat of text without an exponent: leading blanks, a sign, digits,
\* a fraction; NaN when no digit is found
ParseFloat(text) ==
    LET s == TrimStart(text)
        neg == Len(s) > 0 /\ CharAt(s, 1) = "-"
        signed == Len(s) > 0 /\ CharAt(s, 1) \in {"-", "+"}
        body == IF signed THEN SubSeq(s, 2, Len(s)) ELSE s
        whole == DigitPrefix(body)
        rest == SubSeq(body, Len(whole) + 1, Len(body))
        frac == IF Len(rest) > 0 /\ CharAt(rest, 1) = "."
                THEN DigitPrefix(SubSeq(rest, 2, Len(rest))) ELSE ""
        num == DigitsValue(frac, DigitsValue(whole, 0))
        value == Rat(num, Pow10(Len(frac)))
    IN  IF Len(whole) = 0 /\ Len(frac) = 0 THEN NaN
        ELSE IF neg THEN NNeg(value) ELSE value

\* x || 0 on a number: NaN and 0 are falsy
OrZero(x) == IF x = NaN THEN Fin(0) ELSE x

----------------------------------------------------------------------------
(* utils/transactionImporter.ts: parseHistoryToTransactions.  A row of the *)
(* parsed CSV is a record of cell texts; a column the file lacks is "".    *)
(* Description, fees and tax only feed companyName, notes, fees and tax of *)
(* the result and are left out.                                            *)

\* Math.abs
NAbs(a) == IF a.k = "nan" THEN NaN ELSE [a EXCEPT !.n = Abs(a.n)]

determineTransactionType(actionText) ==
    LET action == StrToUpperCase(actionText)
    IN  IF action = "" THEN ""
        ELSE IF StrIncludes(action, "BUY") \/ action = "PURCHASED" THEN "BUY"
        ELSE IF StrIncludes(action, "SELL") \/ action = "SOLD" THEN "SELL"
        ELSE IF StrIncludes(action, "DIV") THEN "DIVIDEND"
        ELSE IF StrIncludes(action, "SPLIT") THEN "SPLIT"
        ELSE IF StrIncludes(action, "DEPOSIT")
                \/ StrIncludes(action, "TRANSFER IN") THEN "TRANSFER"
        ELSE IF StrIncludes(action, "WITHDRAW")
                \/ StrIncludes(action, "TRANSFER OUT") THEN "TRANSFER"
        ELSE IF StrIncludes(action, "FEE") \/ StrIncludes(action, "INTEREST")
             THEN "FEE"
        ELSE IF StrIncludes(action, "TAX") THEN "TAX"
        ELSE action

IsDigits(s) == Len(s) > 0 /\ DigitPrefix(s) = s

\* new Date(dateStr) is a valid date, for the YYYY-MM-DD texts; every other
\* text of the inputs is one the Date constructor rejects
IsValidDateText(dateStr) ==
    /\ Len(dateStr) = 10
    /\ CharAt(dateStr, 5) = "-" /\ CharAt(dateStr, 8) = "-"
    /\ IsDigits(SubSeq(dateStr, 1, 4)) /\ IsDigits(SubSeq(dateStr, 6, 7))
    /\ IsDigits(SubSeq(dateStr, 9, 10))
    /\ DigitsValue(SubSeq(dateStr, 6, 7), 0) \in 1..12
    /\ DigitsValue(SubSeq(dateStr, 9, 10), 0) \in 1..28

\* String.prototype.padStart(2, '0')
PadStart2(s) == IF Len(s) = 0 THEN "00" ELSE IF Len(s) = 1 THEN "0" \o s ELSE s

parseDate(dateStr) ==
    IF dateStr = "" THEN ""
    ELSE IF IsValidDateText(dateStr) THEN dateStr
    ELSE LET parts == StrSplit(dateStr, "/-.")
         IN  IF Len(parts) # 3 THEN ""
             ELSE IF Len(parts[3]) = 4
             THEN parts[3] \o "-" \o PadStart2(parts[1]) \o "-"
                      \o PadStart2(parts[2])
             ELSE IF Len(parts[1]) = 4
             THEN parts[1] \o "-" \o PadStart2(parts[2]) \o "-"
                      \o PadStart2(parts[3])
             ELSE parts[3] \o "-" \o PadStart2(parts[2]) \o "-"
                      \o PadStart2(parts[1])

\* a cell text or the default: cell || '0'
OrText(cell, default) == IF cell = "" THEN default ELSE cell

\* the forEach callback: what one entry adds, the first free uuid being
\* number used + 1
HistoryEntryResult(entry, used) ==
    LET type == determineTransactionType(entry.Action)
        date == parseDate(entry.Date)
        symbol == entry.Symbol
        quantity == OrZero(ParseFloat(OrText(entry.Quantity, "0")))
        price == OrZero(ParseFloat(OrText(entry.Price, "0")))
        amount == OrZero(NAbs(ParseFloat(OrText(entry.Amount, "0"))))
        isDividend == type = "DIVIDEND"
        txId == UUIDs[used + (IF isDividend THEN 2 ELSE 1)]
    IN  IF type = "" \/ date = ""
        THEN [transactions |-> <<>>, dividends |-> <<>>]
        ELSE [transactions |->
                  <<[id |-> txId, date |-> date, type |-> type,
                     symbol |-> symbol, shares |-> quantity, price |-> price,
                     amount |-> amount]>>,
              dividends |->
                  IF isDividend
                  THEN <<[id |-> UUIDs[used + 1], date |-> date,
                          symbol |-> symbol, amount |-> amount,
                          shares |-> quantity]>>
                  ELSE <<>>]

RECURSIVE HistoryEntries(_, _)
\* historyData.forEach from the given entries on
HistoryEntries(entries, acc) ==
    IF entries = <<>> THEN acc
    ELSE LET r == HistoryEntryResult(entries[1],
                      Len(acc.transactions) + Len(acc.dividends))
         IN  HistoryEntries(Tail(entries),
                 [transactions |-> acc.transactions \o r.transactions,
                  dividends |-> acc.dividends \o r.dividends])

parseHistoryToTransactions(historyData) ==
    HistoryEntries(historyData, [transactions |-> <<>>, dividends |-> <<>>])

HistoryEntry(action, date, symbol, quantity, price, amount) ==
    [Action |-> action, Date |-> date, Symbol |-> symbol,
     Quantity |-> quantity, Price |-> price, Amount |-> amount]

\* rows of a broker's history export
HistoryEntryPool ==
    { HistoryEntry("Buy", "2024-01-05", "AAPL", "10", "100", "-1000"),
      HistoryEntry("Dividend Received", "2024-03-01", "AAPL", "", "", "12.50"),
      HistoryEntry("Electronic Funds Transfer", "2024-01-02", "", "", "",
                   "500"),
      HistoryEntry("", "2024-01-03", "MSFT", "3", "300", "900"),
      HistoryEntry("Sold", "n/a", "MSFT", "1", "310", "310"),
      HistoryEntry("sell", "5.01.2024", "MSFT", "1", "310", "310") }

HistoryInit ==
    /\ StoreInit /\ ReplayIdle
    /\ fn = "parseHistoryToTransactions"
    /\ args \in {[historyData |-> d] :
                    d \in SeqsNoRepeat(HistoryEntryPool, MaxTx)}
    /\ ret = <<>>

HistoryCall ==
    /\ fn = "parseHistoryToTransactions" /\ ret = <<>>
    /\ ret' = <<parseHistoryToTransactions(args.historyData)>>
    /\ UNCHANGED <<fn, args, storeVars, replayVars>>

HistorySpec == HistoryInit /\ [][HistoryCall]_vars

\* C16: every transaction the history parser returns has a non-empty type
\* and a non-empty symbol, and a row lacking either is skipped
C16_TypeAndSymbolRequired ==
    (fn = "parseHistoryToTransactions" /\ ret # <<>>) =>
        /\ \A i \in 1..Len(ret[1].transactions) :
              /\ ret[1].transactions[i].type # ""
              /\ ret[1].transactions[i].symbol # ""
        /\ Len(ret[1].transactions)
              <= Cardinality({i \in 1..Len(args.historyData) :
                                /\ args.historyData[i].Action # ""
                                /\ args.historyData[i].Symbol # ""})

----------------------------------------------------------------------------
(* utils/csvParser.ts, parseCSV(csvText): the parser the detector of      *)
(* part_016 calls.  A file is the sequence of its lines.  Of a Holding the *)
(* fields computed from the symbol, shares, price, value and cost columns  *)
(* are kept; name, gain, sector, asset class and the dividend fields are   *)
(* not.                                                                    *)

\* a <= b on numbers: false when either is NaN
NLe(a, b) == a.k # "nan" /\ b.k # "nan" /\ ~NGt(a, b)

\* a number is falsy: 0 or NaN
Falsy(a) == a.k = "nan" \/ (a.k = "fin" /\ a.n = 0)

\* the result object of the parsers and of the detector; a field the code
\* leaves undefined is the empty list or ""
ParserResult(success, fileType, holdings, transactions, dividends, error) ==
    [success |-> success, fileType |-> fileType, holdings |-> holdings,
     transactions |-> transactions, dividends |-> dividends, error |-> error]

Rejected(error) == ParserResult(FALSE, "", <<>>, <<>>, <<>>, error)

\* lowerHeaders.some(header => keywords.some(k => header.includes(k)))
containsKeywords(headers, keywords) ==
    \E i \in 1..Len(headers) : \E k \in keywords :
        StrIncludes(StrToLowerCase(headers[i]), k)

detectHoldingsCSV(headers) ==
    containsKeywords(headers, {"symbol", "ticker", "shares", "quantity",
                               "price", "value", "cost"})

detectTransactionsCSV(headers) ==
    containsKeywords(headers, {"date", "transaction", "type", "action",
                               "buy", "sell"})

\* findIndex, counted from 1; 0 is the code's -1
findHeaderIndex(headers, possibleNames) ==
    LET hit(i) == \E name \in possibleNames :
                      StrIncludes(StrToLowerCase(headers[i]), name)
    IN  IF \E i \in 1..Len(headers) : hit(i)
        THEN CHOOSE i \in 1..Len(headers) :
                 hit(i) /\ \A j \in 1..(i - 1) : ~hit(j)
        ELSE 0

RECURSIVE CsvCellsFrom(_, _, _, _)
\* parseCsvLine from position i on: a quote toggles inQuotes and is dropped,
\* a comma outside quotes ends the cell
CsvCellsFrom(line, i, inQuotes, cell) ==
    IF i > Len(line) THEN <<cell>>
    ELSE IF CharAt(line, i) = "\""
    THEN CsvCellsFrom(line, i + 1, ~inQuotes, cell)
    ELSE IF CharAt(line, i) = "," /\ ~inQuotes
    THEN <<cell>> \o CsvCellsFrom(line, i + 1, inQuotes, "")
    ELSE CsvCellsFrom(line, i + 1, inQuotes, cell \o CharAt(line, i))

parseCsvLine(line) == CsvCellsFrom(line, 1, FALSE, "")

\* the column indices the holdings branch looks up
HoldingColumns(headers) ==
    [symbol |-> findHeaderIndex(headers, {"symbol", "ticker", "stock"}),
     shares |-> findHeaderIndex(headers, {"shares", "quantity", "position"}),
     costBasis |-> findHeaderIndex(headers,
                       {"cost basis", "basis", "total cost"}),
     costPerShare |-> findHeaderIndex(headers,
                       {"cost per share", "price paid", "avg price",
                        "average price"}),
     currentPrice |-> findHeaderIndex(headers,
                       {"price", "current price", "last price"}),
     currentValue |-> findHeaderIndex(headers,
                       {"value", "current value", "market value"})]

\* index >= 0 ? parseFloat(cells[index]) : otherwise
CellOr(cells, index, otherwise) ==
    IF index # 0 THEN ParseFloat(cells[index]) ELSE otherwise

\* the holding of data line number i (from 0) with the given cells, or <<>>
\* when the row is skipped
HoldingOfCells(headers, col, cells, i) ==
    LET symbol == StrTrim(cells[col.symbol])
        shares == CellOr(cells, col.shares, Fin(0))
        costBasis == CellOr(cells, col.costBasis, Fin(0))
        costPerShare == CellOr(cells, col.costPerShare,
                            IF NGt(shares, Fin(0))
                            THEN NDiv(costBasis, shares) ELSE Fin(0))
        currentPrice == CellOr(cells, col.currentPrice, Fin(0))
        currentValue == CellOr(cells, col.currentValue,
                            NMul(currentPrice, shares))
    IN  IF Len(cells) # Len(headers) THEN <<>>
        ELSE IF symbol = "" THEN <<>>
        ELSE IF NLe(shares, Fin(0)) THEN <<>>
        ELSE <<[id |-> "holding-" \o symbol \o "-" \o ToString(i),
                symbol |-> symbol, shares |-> shares,
                costPerShare |-> costPerShare, costBasis |-> costBasis,
                totalCost |-> IF Falsy(costBasis)
                              THEN NMul(costPerShare, shares) ELSE costBasis,
                currentValue |-> currentValue, currentPrice |-> currentPrice,
                allocation |-> Fin(0)]>>

\* the holding of data line number i (from 0), or <<>> when the row is
\* skipped; the cells are bound once, as the code's constant is
TextRowHolding(headers, col, line, i) ==
    CHOOSE row \in {HoldingOfCells(headers, col, cells, i) :
                       cells \in {parseCsvLine(line)}} : TRUE

RECURSIVE TextRowHoldings(_, _, _, _)
\* the for loop over dataLines from number i on
TextRowHoldings(headers, col, dataLines, i) ==
    IF i >= Len(dataLines) THEN <<>>
    ELSE TextRowHolding(headers, col, dataLines[i + 1], i)
             \o TextRowHoldings(headers, col, dataLines, i + 1)

RECURSIVE SumCurrentValue(_)
\* holdings.reduce((sum, h) => sum + h.currentValue, 0)
SumCurrentValue(holdings) ==
    IF holdings = <<>> THEN Fin(0)
    ELSE NAdd(holdings[Len(holdings)].currentValue,
              SumCurrentValue(SubSeq(holdings, 1, Len(holdings) - 1)))

\* the mutant of WithAllocation: the share as a fraction, not a percentage
WithAllocationFraction(holdings, totalValue) ==
    [i \in 1..Len(holdings) |->
        [holdings[i] EXCEPT
            !.allocation = NDiv(holdings[i].currentValue, totalValue)]]

\* holding.allocation = (holding.currentValue / totalValue) * 100
WithAllocation(holdings, totalValue) ==
    [i \in 1..Len(holdings) |->
        [holdings[i] EXCEPT
            !.allocation = NMul(NDiv(holdings[i].currentValue, totalValue),
                                Fin(100))]]

\* insert h into a list sorted by currentValue, largest first, after the
\* entries that do not compare smaller (the sort is stable)
InsertByValueDesc(s, h) ==
    LET before == {i \in 1..Len(s) : ~NGt(h.currentValue, s[i].currentValue)}
        n == IF before = {} THEN 0
             ELSE CHOOSE i \in before : \A j \in before : j <= i
    IN  SubSeq(s, 1, n) \o <<h>> \o SubSeq(s, n + 1, Len(s))

RECURSIVE SortByValueDesc(_)
\* holdings.sort((a, b) => b.currentValue - a.currentValue)
SortByValueDesc(s) ==
    IF s = <<>> THEN <<>>
    ELSE InsertByValueDesc(SortByValueDesc(SubSeq(s, 1, Len(s) - 1)),
                           s[Len(s)])

\* the holding pushed when no row gave one
PlaceholderHolding ==
    [id |-> "placeholder", symbol |-> "PLACEHOLDER", shares |-> Fin(1),
     costPerShare |-> Fin(100), costBasis |-> Fin(100),
     totalCost |-> Fin(100), currentValue |-> Fin(100),
     currentPrice |-> Fin(100), allocation |-> Fin(100)]

\* lines.slice(1).filter(line => line.trim() !== '')
DataLines(lines) ==
    SelectSeq(SubSeq(lines, 2, Len(lines)), LAMBDA line : StrTrim(line) # "")

\* lines[0].split(',').map(header => header.trim())
TextHeaders(lines) ==
    LET raw == StrSplit(lines[1], ",")
    IN  [i \in 1..Len(raw) |-> StrTrim(raw[i])]

\* the value the holdings branch resolves or rejects with
HoldingsBranch(headers, col, dataLines, holdings) ==
    LET totalValue == SumCurrentValue(holdings)
    IN  IF col.symbol = 0 THEN Rejected("Required column 'Symbol' not found")
        ELSE IF holdings # <<>>
        THEN ParserResult(TRUE, "holdings",
                 SortByValueDesc(IF NGt(totalValue, Fin(0))
                                 THEN WithAllocation(holdings, totalValue)
                                 ELSE holdings),
                 <<>>, <<>>, "")
        ELSE ParserResult(TRUE, "holdings", <<PlaceholderHolding>>, <<>>,
                 <<>>, "No valid holdings found in CSV. Created a placeholder.")

\* parseCSV after the headers and data lines are known
ParseTextRows(headers, dataLines) ==
    IF ~detectHoldingsCSV(headers) /\ ~detectTransactionsCSV(headers)
    THEN Rejected("Could not determine CSV type. Expected headers for holdings or transactions not found.")
    ELSE IF dataLines = <<>> THEN Rejected("No data rows found in CSV")
    ELSE IF ~detectHoldingsCSV(headers)
    THEN ParserResult(TRUE, "transactions", <<>>, <<>>, <<>>, "")
    ELSE CHOOSE r \in
            {HoldingsBranch(headers, col, dataLines,
                 IF col.symbol = 0 THEN <<>>
                 ELSE TextRowHoldings(headers, col, dataLines, 0)) :
                col \in {HoldingColumns(headers)}} : TRUE

\* parseCSV(csvText) on the lines of csvText; a result with success FALSE is
\* the value the promise is rejected with; headers and dataLines are bound
\* once, as the code's constants are
parseCSV(lines) ==
    IF lines = <<"">> THEN Rejected("No CSV data provided")
    ELSE CHOOSE r \in {ParseTextRows(headers, dataLines) :
                          headers \in {TextHeaders(lines)},
                          dataLines \in {DataLines(lines)}} : TRUE

----------------------------------------------------------------------------
(* unnamed/part_016 (utils/csvDetector.ts): detectAndParseCSV without an   *)
(* aiProvider.                                                             *)

\* firstLine.split(',').map(h => h.trim().toLowerCase())
DetectorHeaders(lines) ==
    LET raw == StrSplit(lines[1], ",")
    IN  [i \in 1..Len(raw) |-> StrToLowerCase(StrTrim(raw[i]))]

\* the keywords some header includes
KeywordsPresent(headers, keywords) ==
    {k \in keywords : \E i \in 1..Len(headers) : StrIncludes(headers[i], k)}

hasTransactionHeaders(headers) ==
    /\ {"date", "symbol"} \subseteq
           KeywordsPresent(headers, {"date", "symbol"})
    /\ Cardinality(KeywordsPresent(headers,
           {"date", "transaction", "action", "type", "buy", "sell",
            "symbol", "price", "amount", "quantity"})) >= 4

hasHoldingHeaders(headers) ==
    /\ KeywordsPresent(headers, {"symbol", "share"}) # {}
    /\ Cardinality(KeywordsPresent(headers,
           {"symbol", "ticker", "share", "position", "value", "price",
            "cost"})) >= 3

\* the value the catch block returns for a thrown value that is not an Error
DetectorCaught == Rejected("Unknown error detecting CSV format")

\* the transaction-history branch: a rejection of parseCSV is caught; a
\* parse without a transactions field goes on to JSON.parse of the CSV text,
\* whose SyntaxError is caught; parseTransactionHistory is no export of
\* utils/transactionParser.ts, so calling it throws a TypeError
HistoryBranch(lines) ==
    CHOOSE r \in
        {IF ~parsedData.success THEN DetectorCaught
         ELSE IF parsedData.fileType = "transactions"
         THEN Rejected("parseTransactionHistory is not a function")
         ELSE Rejected("Unexpected token in JSON") :
            parsedData \in {parseCSV(lines)}} : TRUE

\* the value returned for the value parseCSV settles with
StandardBranch(parsed) ==
    IF ~parsed.success THEN DetectorCaught
    ELSE ParserResult(TRUE, parsed.fileType, parsed.holdings,
                      parsed.transactions, parsed.dividends, "")

detectAndParseCSV(lines) ==
    IF lines = <<"">> THEN Rejected("Could not read file content")
    ELSE IF hasTransactionHeaders(DetectorHeaders(lines))
    THEN HistoryBranch(lines)
    ELSE CHOOSE r \in {StandardBranch(parsed) :
                          parsed \in {parseCSV(lines)}} : TRUE

\* header lines of the files handed to the detector
HeaderPool ==
    {"Ticker,Qty,LastPrice", "Symbol,Shares,Price,Value", "Foo,Bar",
     "Date,Symbol,Action,Amount", "Symbol, Shares", "Price,Value,Cost",
     "Date,Type"}

\* data lines of the files handed to the detector
RowPool ==
    {"AAPL,10,150", "MSFT,0,300", ",5,20", "AAPL,10,150,1500",
     "MSFT,3,300,900", "GOLD,2,-50,-100", "AAPL,10", "T,2.5",
     "2024-01-05,AAPL,Buy,1000", "\"BRK,B\",2,400", ""}

RECURSIVE RowLists(_)
\* the lists of at most n data lines
RowLists(n) ==
    IF n = 0 THEN {<<>>}
    ELSE LET shorter == RowLists(n - 1)
         IN  shorter \cup {Append(s, r) : s \in shorter, r \in RowPool}

\* the files: the empty file, and a header line followed by data lines
FilePool ==
    {<<"">>} \cup {<<h>> \o rows : h \in HeaderPool, rows \in RowLists(MaxRows)}

DetectInit ==
    /\ StoreInit /\ ReplayIdle
    /\ fn = "detectAndParseCSV"
    /\ args \in {[lines |-> f] : f \in FilePool}
    /\ ret = <<>>

DetectCall ==
    /\ fn = "detectAndParseCSV" /\ ret = <<>>
    /\ ret' = <<detectAndParseCSV(args.lines)>>
    /\ UNCHANGED <<storeVars, replayVars, fn, args>>

DetectSpec == DetectInit /\ [][DetectCall]_vars

DetectReturned == fn = "detectAndParseCSV" /\ ret # <<>>

\* the header line matches neither the positions nor the transaction
\* signature
NeitherSignature(lines) ==
    /\ ~hasHoldingHeaders(DetectorHeaders(lines))
    /\ ~hasTransactionHeaders(DetectorHeaders(lines))

\* C14: a file whose header line satisfies neither the positions signature
\* nor the transaction signature fails to parse: the result reports an error
\* and carries no holdings, transactions or dividends.
C14_NeitherSignatureFails ==
    (DetectReturned /\ NeitherSignature(args.lines))
        => /\ ~ret[1].success
           /\ ret[1].error # ""
           /\ ret[1].holdings = <<>>
           /\ ret[1].transactions = <<>>
           /\ ret[1].dividends = <<>>

\* the data lines of a Ticker,Qty,LastPrice file that name a ticker and a
\* positive quantity
PositionRows(lines) ==
    SelectSeq(SubSeq(lines, 2, Len(lines)),
        LAMBDA line :
            LET cells == StrSplit(line, ",")
            IN  /\ Len(cells) = 3
                /\ StrTrim(cells[1]) # ""
                /\ NGt(ParseFloat(cells[2]), Fin(0)))

\* C15: a file with the header Ticker,Qty,LastPrice and at least one data
\* line with a ticker and a positive quantity is parsed successfully as a
\* positions file: each such data line gives one holding with that symbol
\* and that number of shares, and there are no other holdings.
C15_TickerQtyLastPriceParsed ==
    (/\ DetectReturned
     /\ args.lines[1] = "Ticker,Qty,LastPrice"
     /\ PositionRows(args.lines) # <<>>)
        => LET rows == PositionRows(args.lines)
               holdings == ret[1].holdings
           IN  /\ ret[1].success
               /\ ret[1].fileType \in {"holdings", "positions"}
               /\ Len(holdings) = Len(rows)
               /\ \A i \in 1..Len(rows) :
                      \E j \in 1..Len(holdings) :
                          /\ holdings[j].symbol
                                 = StrTrim(StrSplit(rows[i], ",")[1])
                          /\ holdings[j].shares
                                 = ParseFloat(StrSplit(rows[i], ",")[2])

----------------------------------------------------------------------------
(* The File-based parsers: utils/csvParser.ts parseCSV(file) and           *)
(* utils/transactionParser.ts parseTransactionHistoryCSV(file).  A file is *)
(* the sequence of its lines.  Of their results the holdings are modelled, *)
(* with the fields computed from the symbol, quantity, price and value     *)
(* columns; the dividends and transactions lists take no part in them.     *)

\* the holdings of the value a File-based parser resolves with
FileResolved(holdings) == [resolved |-> TRUE, holdings |-> holdings]

\* the promise is rejected: 'Failed to read file'
FileRejected == [resolved |-> FALSE, holdings |-> <<>>]

\* the least element of a set of indices, 0 (the code's -1) when empty
FirstIndex(S) == IF S = {} THEN 0 ELSE CHOOSE i \in S : \A j \in S : i <= j

\* the header row: the first of the first 10 lines that includes every
\* word, else the first line (counted from 1)
FindHeaderRow(lines, words) ==
    LET n == IF Len(lines) < 10 THEN Len(lines) ELSE 10
        found == FirstIndex({i \in 1..n : \A w \in words :
                                StrIncludes(StrToLowerCase(lines[i]), w)})
    IN  IF found = 0 THEN 1 ELSE found

RECURSIVE QuotedCellsFrom(_, _, _, _)
\* the splitting loop of both parsers from position j on: a quote not
\* preceded by a backslash toggles inQuotes, a comma outside quotes ends the
\* cell, and every cell is trimmed
QuotedCellsFrom(line, j, inQuotes, parsedValue) ==
    IF j > Len(line) THEN <<StrTrim(parsedValue)>>
    ELSE IF CharAt(line, j) = "\"" /\ (j = 1 \/ CharAt(line, j - 1) # "\\")
    THEN QuotedCellsFrom(line, j + 1, ~inQuotes, parsedValue)
    ELSE IF CharAt(line, j) = "," /\ ~inQuotes
    THEN <<StrTrim(parsedValue)>> \o QuotedCellsFrom(line, j + 1, inQuotes, "")
    ELSE QuotedCellsFrom(line, j + 1, inQuotes,
                         parsedValue \o CharAt(line, j))

RECURSIVE StripChars(_, _)
\* s.replace(/[...]/g, '') for the characters of chars
StripChars(s, chars) ==
    IF s = "" THEN ""
    ELSE IF IndexIn(chars, CharAt(s, 1)) # 0
    THEN StripChars(SubSeq(s, 2, Len(s)), chars)
    ELSE CharAt(s, 1) \o StripChars(SubSeq(s, 2, Len(s)), chars)

\* parseFloat(values[index].replace(/[$,"\s]/g, '')) || 0 when the column
\* exists in the row, else 0
AmountCell(values, index) ==
    IF index # 0 /\ index <= Len(values)
    THEN OrZero(ParseFloat(StripChars(values[index], "$,\" ")))
    ELSE Fin(0)

\* values[index].replace(/"/g, '') when the column exists in the row
TextCell(values, index) ==
    IF index # 0 /\ index <= Len(values)
    THEN StripChars(values[index], "\"") ELSE ""

\* the columns of parseCSV(file) the holdings depend on
PositionColumns(headers) ==
    LET at == 1..Len(headers)
    IN  [symbol |-> FirstIndex({i \in at : headers[i] = "symbol"}),
         quantity |-> FirstIndex({i \in at : headers[i] = "quantity"}),
         lastPrice |-> FirstIndex({i \in at :
                           /\ StrIncludes(headers[i], "last")
                           /\ StrIncludes(headers[i], "price")
                           /\ ~StrIncludes(headers[i], "change")}),
         currentValue |-> FirstIndex({i \in at :
                           /\ StrIncludes(headers[i], "current")
                           /\ StrIncludes(headers[i], "value")})]

\* the holding of line number i (from 0) whose trimmed text splits into
\* values, or <<>> when the row is skipped
PositionOfValues(headers, columnMap, values, i) ==
    LET symbol == TextCell(values, columnMap.symbol)
        shares == AmountCell(values, columnMap.quantity)
        currentPrice == AmountCell(values, columnMap.lastPrice)
        currentValue ==
            IF columnMap.currentValue # 0
                   /\ columnMap.currentValue <= Len(values)
            THEN AmountCell(values, columnMap.currentValue)
            ELSE IF NGt(currentPrice, Fin(0)) /\ NGt(shares, Fin(0))
            THEN NMul(currentPrice, shares) ELSE Fin(0)
    IN  IF \/ Len(values) < (IF Len(headers) < 10
                             THEN Len(headers) ELSE 10)
           \/ \E v \in 1..Len(values) :
                  StrIncludes(StrToLowerCase(values[v]), "total")
           \/ columnMap.symbol = 0
           \/ columnMap.symbol > Len(values)
           \/ values[columnMap.symbol] = ""
           \/ StrToLowerCase(values[columnMap.symbol]) = "symbol"
        THEN <<>>
        ELSE IF symbol = "" \/ StrToLowerCase(symbol) = "symbol" THEN <<>>
        ELSE IF NLe(shares, Fin(0)) THEN <<>>
        ELSE <<[id |-> "holding-" \o symbol \o "-" \o ToString(i),
                symbol |-> symbol, shares |-> shares,
                costPerShare |-> currentPrice, costBasis |-> currentValue,
                currentValue |-> currentValue, currentPrice |-> currentPrice,
                allocation |-> Fin(0)]>>

\* the holding of line number i (from 0), or <<>> when the row is skipped;
\* the line and its values are bound once, as the code's constants are
PositionRowHolding(headers, columnMap, rawLine, i) ==
    CHOOSE row \in
        {IF line = "" THEN <<>>
         ELSE CHOOSE r \in {PositionOfValues(headers, columnMap, values, i) :
                       values \in {QuotedCellsFrom(line, 1, FALSE, "")}} : TRUE :
            line \in {StrTrim(rawLine)}} : TRUE

RECURSIVE PositionRowHoldings(_, _, _, _)
\* the for loop from line number i (from 0) on
PositionRowHoldings(headers, columnMap, lines, i) ==
    IF i >= Len(lines) THEN <<>>
    ELSE PositionRowHolding(headers, columnMap, lines[i + 1], i)
             \o PositionRowHoldings(headers, columnMap, lines, i + 1)

\* the holding pushed by parseCSV(file) when no row gave one
PlaceholderPosition ==
    [id |-> "placeholder", symbol |-> "PLACEHOLDER", shares |-> Fin(1),
     costPerShare |-> Fin(100), costBasis |-> Fin(100),
     currentValue |-> Fin(100), currentPrice |-> Fin(100),
     allocation |-> Fin(100)]

\* the value parseCSV(file) resolves with for the holdings of the rows;
\* totalPortfolioValue is their sum, replaced by 1 when it is not positive
PositionsResult(holdings) ==
    LET sum == SumCurrentValue(holdings)
        totalPortfolioValue == IF NLe(sum, Fin(0)) THEN Fin(1) ELSE sum
    IN  IF holdings = <<>> THEN FileResolved(<<PlaceholderPosition>>)
        ELSE FileResolved(WithAllocation(holdings, totalPortfolioValue))

\* parseCSV(file) on the lines of the file's text
parseCSVFile(lines) ==
    IF lines = <<"">> THEN FileRejected
    ELSE CHOOSE r \in
            {PositionsResult(holdings) :
                holdings \in
                    {PositionRowHoldings(headers, columnMap, lines, headerIndex) :
                        headers \in {DetectorHeaders(<<lines[headerIndex]>>) :
                            headerIndex \in {FindHeaderRow(lines,
                                {"symbol", "description", "quantity",
                                 "current value"})}},
                        columnMap \in {PositionColumns(DetectorHeaders(
                            <<lines[FindHeaderRow(lines, {"symbol",
                                "description", "quantity",
                                "current value"})]>>))},
                        headerIndex \in {FindHeaderRow(lines,
                            {"symbol", "description", "quantity",
                             "current value"})}}} : TRUE

\* the columns of parseTransactionHistoryCSV the holdings depend on
HistoryColumns(headers) ==
    LET at == 1..Len(headers)
    IN  [action |-> FirstIndex({i \in at : headers[i] = "action"}),
         symbol |-> FirstIndex({i \in at : headers[i] = "symbol"}),
         description |-> FirstIndex({i \in at : headers[i] = "description"}),
         quantity |-> FirstIndex({i \in at : headers[i] = "quantity"}),
         price |-> FirstIndex({i \in at : StrIncludes(headers[i], "price")})]

\* transactionType of a row
RowTransactionType(action, description) ==
    LET actionLower == StrToLowerCase(action)
        descLower == StrToLowerCase(description)
    IN  IF StrIncludes(actionLower, "buy")
               \/ StrIncludes(actionLower, "purchase") THEN "buy"
        ELSE IF StrIncludes(actionLower, "sell")
               \/ StrIncludes(actionLower, "sale") THEN "sell"
        ELSE IF \/ StrIncludes(actionLower, "dividend")
                \/ StrIncludes(descLower, "dividend")
                \/ StrIncludes(descLower, "dist")
                \/ StrIncludes(descLower, "income") THEN "dividend"
        ELSE IF StrIncludes(actionLower, "split")
               \/ StrIncludes(descLower, "split") THEN "split"
        ELSE IF \/ StrIncludes(actionLower, "transfer")
                \/ StrIncludes(actionLower, "deposit")
                \/ StrIncludes(actionLower, "withdrawal") THEN "transfer"
        ELSE IF StrIncludes(actionLower, "tax")
               \/ StrIncludes(descLower, "tax") THEN "tax"
        ELSE "buy"

\* the place of symbol in positionTracker, 0 when it is no key
TrackerIndex(positionTracker, symbol) ==
    FirstIndex({k \in 1..Len(positionTracker) :
                   positionTracker[k].symbol = symbol})

\* positionTracker after a buy or sell of quantity at price
TrackPosition(positionTracker, transactionType, symbol, quantity, price) ==
    LET k == TrackerIndex(positionTracker, symbol)
        tracker == IF k # 0 THEN positionTracker
                   ELSE Append(positionTracker,
                            [symbol |-> symbol, quantity |-> Fin(0),
                             costBasis |-> Fin(0), lastPrice |-> price])
        at == IF k # 0 THEN k ELSE Len(tracker)
        old == tracker[at]
        moved ==
            IF transactionType = "buy"
            THEN [old EXCEPT
                    !.costBasis =
                        IF NGt(NAdd(old.quantity, quantity), Fin(0))
                        THEN NDiv(NAdd(NMul(old.costBasis, old.quantity),
                                       NMul(price, quantity)),
                                  NAdd(old.quantity, quantity))
                        ELSE old.costBasis,
                    !.quantity = NAdd(old.quantity, quantity)]
            ELSE [old EXCEPT !.quantity = NSub(old.quantity, quantity)]
    IN  [tracker EXCEPT
            ![at] = IF NGt(price, Fin(0))
                    THEN [moved EXCEPT !.lastPrice = price] ELSE moved]

\* positionTracker after one line of the file
TrackRow(positionTracker, headers, columnMap, rawLine) ==
    LET values == QuotedCellsFrom(StrTrim(rawLine), 1, FALSE, "")
        action == StrTrim(TextCell(values, columnMap.action))
        symbol == StrTrim(TextCell(values, columnMap.symbol))
        description == StrTrim(TextCell(values, columnMap.description))
        transactionType == RowTransactionType(action, description)
    IN  IF StrTrim(rawLine) = "" THEN positionTracker
        ELSE IF Len(values) < (IF Len(headers) < 5 THEN Len(headers) ELSE 5)
        THEN positionTracker
        ELSE IF action = "" \/ symbol = "" THEN positionTracker
        ELSE IF transactionType \in {"buy", "sell"}
        THEN TrackPosition(positionTracker, transactionType, symbol,
                           AmountCell(values, columnMap.quantity),
                           AmountCell(values, columnMap.price))
        ELSE positionTracker

RECURSIVE TrackRows(_, _, _, _, _)
\* the for loop from line number i (from 0) on
TrackRows(positionTracker, headers, columnMap, lines, i) ==
    IF i >= Len(lines) THEN positionTracker
    ELSE TrackRows(TrackRow(positionTracker, headers, columnMap,
                            lines[i + 1]),
                   headers, columnMap, lines, i + 1)

\* the holding of a tracked position
TrackedHolding(position) ==
    [id |-> "holding-" \o position.symbol, symbol |-> position.symbol,
     shares |-> position.quantity, costPerShare |-> position.costBasis,
     costBasis |-> NMul(position.quantity, position.costBasis),
     currentValue |-> NMul(position.quantity, position.lastPrice),
     currentPrice |-> position.lastPrice, allocation |-> Fin(0)]

RECURSIVE TrackedHoldings(_)
\* the holdings of the positions that still have shares, in key order
TrackedHoldings(positionTracker) ==
    IF positionTracker = <<>> THEN <<>>
    ELSE (IF NGt(Head(positionTracker).quantity, Fin(0))
          THEN <<TrackedHolding(Head(positionTracker))>> ELSE <<>>)
             \o TrackedHoldings(Tail(positionTracker))

\* parseTransactionHistoryCSV(file) on the lines of the file's text
parseTransactionHistoryCSV(lines) ==
    LET headerIndex == FindHeaderRow(lines, {"action", "symbol", "amount"})
        headers == DetectorHeaders(<<lines[headerIndex]>>)
        holdings == TrackedHoldings(TrackRows(<<>>, headers,
                        HistoryColumns(headers), lines, headerIndex))
    IN  IF lines = <<"">> THEN FileRejected
        ELSE FileResolved(WithAllocation(holdings,
                                         SumCurrentValue(holdings)))

----------------------------------------------------------------------------
(* The producers of holding lists, called on bounded inputs.               *)

\* files of parseCSV(file)
PositionFilePool ==
    {<<"">>} \cup
    {<<h>> \o rows :
        h \in {"Symbol,Description,Quantity,Last Price,Current Value"},
        rows \in SeqsNoRepeat(
            {"AAPL,Apple,10,$150.00,\"$1,500.00\"", "MSFT,Microsoft,3,300,900",
             "VOO,Vanguard ETF,2,400,", "GOLD,Gold,1,-5,-100",
             "CASH,Cash,0,1,50", "Total,,,,2400", "T,AT&T,4,20,n/a"},
            MaxRows)} \cup
    {<<h>> \o rows :
        h \in {"Symbol,Quantity,Last Price"},
        rows \in SeqsNoRepeat({"T,4,20", "F,2.5,12.40", "X,1,abc"}, MaxRows)}

\* files of parseTransactionHistoryCSV
HistoryFilePool ==
    {<<"">>} \cup
    {<<"Run Date,Action,Symbol,Description,Quantity,Price,Amount">> \o rows :
        rows \in SeqsNoRepeat(
            {"2024-01-05,Buy,AAPL,Apple,10,150,-1500",
             "2024-02-05,Sell,AAPL,Apple,4,160,640",
             "2024-02-06,Sell,AAPL,Apple,10,160,1600",
             "2024-03-01,DIVIDEND RECEIVED,AAPL,Apple,,,12",
             "2024-01-09,YOU BOUGHT,MSFT,Microsoft,2,300.50,-601",
             "2024-01-10,Buy,ZERO,Zero,5,0,0",
             "2024-01-11,Buy,NEG,Negative,1,-20,20",
             "2024-01-12,Deposit,,Cash,,,500"},
            MaxRows)}

\* files of parseCSV(csvText)
TextFilePool ==
    {<<h>> \o rows : h \in {"Symbol,Shares,Price,Value"},
        rows \in SeqsNoRepeat({"AAPL,10,150,1500", "MSFT,3,300,900",
                               "GOLD,2,-50,-100", "T,4,0,0", "AAPL,10"},
                              MaxRows)}

AllocationInit ==
    /\ StoreInit /\ ReplayIdle
    /\ ret = <<>>
    /\ \/ fn = "calculateHoldingsFromTransactions"
          /\ args \in {[transactions |-> t] : t \in TxLists}
       \/ fn = "parseCSV"
          /\ args \in {[lines |-> f] : f \in TextFilePool}
       \/ fn = "parseCSVFile"
          /\ args \in {[lines |-> f] : f \in PositionFilePool}
       \/ fn = "parseTransactionHistoryCSV"
          /\ args \in {[lines |-> f] : f \in HistoryFilePool}

ReconcileCall ==
    /\ fn = "calculateHoldingsFromTransactions" /\ ret = <<>>
    /\ ret' = <<calculateHoldingsFromTransactions(args.transactions)>>
    /\ UNCHANGED <<storeVars, replayVars, fn, args>>

TextParseCall ==
    /\ fn = "parseCSV" /\ ret = <<>>
    /\ ret' = <<parseCSV(args.lines).holdings>>
    /\ UNCHANGED <<storeVars, replayVars, fn, args>>

PositionParseCall ==
    /\ fn = "parseCSVFile" /\ ret = <<>>
    /\ ret' = <<parseCSVFile(args.lines).holdings>>
    /\ UNCHANGED <<storeVars, replayVars, fn, args>>

HistoryParseCall ==
    /\ fn = "parseTransactionHistoryCSV" /\ ret = <<>>
    /\ ret' = <<parseTransactionHistoryCSV(args.lines).holdings>>
    /\ UNCHANGED <<storeVars, replayVars, fn, args>>

AllocationNext ==
    \/ ReconcileCall
    \/ TextParseCall
    \/ PositionParseCall
    \/ HistoryParseCall

AllocationSpec == AllocationInit /\ [][AllocationNext]_vars

RECURSIVE SumAllocation(_)
\* the sum of the allocation values of a holding list
SumAllocation(holdings) ==
    IF holdings = <<>> THEN Fin(0)
    ELSE NAdd(holdings[Len(holdings)].allocation,
              SumAllocation(SubSeq(holdings, 1, Len(holdings) - 1)))

\* a producer has returned a non-empty holding list of positive total value
PositiveHoldingsReturned ==
    /\ ret # <<>>
    /\ fn \in {"calculateHoldingsFromTransactions", "parseCSV",
               "parseCSVFile", "parseTransactionHistoryCSV"}
    /\ ret[1] # <<>>
    /\ NGt(SumCurrentValue(ret[1]), Fin(0))

\* C11: every non-empty holding list of positive total currentValue that
\* reconcile or a parser returns has allocation values that sum to 100
\* within 0.01.
C11_AllocationSumsTo100 ==
    PositiveHoldingsReturned
        => LET off == NAbs(NSub(SumAllocation(ret[1]), Fin(100)))
           IN  NLe(off, Rat(1, 100))

\* C11 witness: a parser has returned two holdings of different value, one
\* of them of negative value, and the total is positive
C11_Witness ==
    /\ PositiveHoldingsReturned
    /\ fn = "parseCSVFile"
    /\ Len(ret[1]) = 2
    /\ \E i \in 1..2 : NGt(Fin(0), ret[1][i].currentValue)

----------------------------------------------------------------------------
(* utils/calculations.ts: the two functions calculateDividendProjections.  *)
(* The later one (line 471) spreads each holding's annualIncome by its     *)
(* dividendFrequency; the earlier one (line 40) averages the dividend      *)
(* history by month.  now is <<year, month, day>> with month from 1, a     *)
(* dividend date likewise; getMonth() is the month minus 1.                *)

\* the mutant of MonthKey: the year is not moved on when the month wraps
MonthKeySameYear(currentYear, currentMonth, i) ==
    ToString(currentYear) \o "-"
        \o PadStart2(ToString(((currentMonth + i) % 12) + 1))

\* `${year}-${String(monthIndex + 1).padStart(2, '0')}` of window entry i
MonthKey(currentYear, currentMonth, i) ==
    ToString(currentYear + ((currentMonth + i) \div 12)) \o "-"
        \o PadStart2(ToString(((currentMonth + i) % 12) + 1))

\* the 12 entries both functions start from (entry i of the code is at
\* i + 1); the earlier function's entries have no holdings list and it never
\* fills it
InitialProjections(now) ==
    [k \in 1..12 |-> [month |-> MonthKey(now[1], now[2] - 1, k - 1),
                      total |-> Fin(0), holdings |-> <<>>]]

\* the numbers 0..11 in the order of Array.prototype.sort without a
\* comparator, which compares them as strings
DefaultSortOrder == <<0, 1, 10, 11, 2, 3, 4, 5, 6, 7, 8, 9>>

detectQuarterlyMonths(symbol, dividendHistory) ==
    LET dividends == SelectSeq(dividendHistory, LAMBDA d : d.symbol = symbol)
        months == {dividends[k].date[2] - 1 : k \in 1..Len(dividends)}
        uniqueMonths == SelectSeq(DefaultSortOrder, LAMBDA m : m \in months)
    IN  IF Len(dividends) < 2 THEN <<>>
        ELSE IF /\ Len(uniqueMonths) = 4
                /\ uniqueMonths[2] - uniqueMonths[1] >= 2
                /\ uniqueMonths[3] - uniqueMonths[2] >= 2
                /\ uniqueMonths[4] - uniqueMonths[3] >= 2
        THEN uniqueMonths
        ELSE <<0, 3, 6, 9>>

\* the calendar months (from 0) a holding's income is put into
PayMonths(holding, dividendHistory) ==
    LET quarterMonths == detectQuarterlyMonths(holding.symbol,
                                               dividendHistory)
    IN  CASE holding.dividendFrequency = "monthly" -> 0..11
          [] holding.dividendFrequency = "quarterly" ->
                IF Len(quarterMonths) = 4
                THEN {quarterMonths[k] : k \in 1..4}
                ELSE {0, 3, 6, 9}
          [] holding.dividendFrequency = "semi-annual" -> {0, 6}
          [] holding.dividendFrequency = "annual" -> {11}
          [] OTHER -> {0, 3, 6, 9}

\* the part of annualAmount put into each of those months
PayAmount(holding) ==
    CASE holding.dividendFrequency = "monthly" ->
            NDiv(holding.annualIncome, Fin(12))
      [] holding.dividendFrequency = "semi-annual" ->
            NDiv(holding.annualIncome, Fin(2))
      [] holding.dividendFrequency = "annual" -> holding.annualIncome
      [] OTHER -> NDiv(holding.annualIncome, Fin(4))

\* the holdings.forEach callback: the projections after one holding
ProjectHolding(projections, holding, dividendHistory, currentMonth) ==
    IF NLe(holding.dividendAmount, Fin(0)) \/ NLe(holding.shares, Fin(0))
    THEN projections
    ELSE [k \in 1..12 |->
            IF ((currentMonth + k - 1) % 12)
                   \in PayMonths(holding, dividendHistory)
            THEN [projections[k] EXCEPT
                    !.total = NAdd(@, PayAmount(holding)),
                    !.holdings = Append(@, [symbol |-> holding.symbol,
                                            name |-> holding.name,
                                            amount |-> PayAmount(holding)])]
            ELSE projections[k]]

RECURSIVE ProjectHoldings(_, _, _, _)
\* holdings.forEach
ProjectHoldings(projections, holdings, dividendHistory, currentMonth) ==
    IF holdings = <<>> THEN projections
    ELSE ProjectHoldings(ProjectHolding(projections, Head(holdings),
                                        dividendHistory, currentMonth),
                         Tail(holdings), dividendHistory, currentMonth)

\* calculations.ts line 471
calculateDividendProjections(holdings, dividendHistory, now) ==
    ProjectHoldings(InitialProjections(now), holdings, dividendHistory,
                    now[2] - 1)

RECURSIVE SumOfAmounts(_)
\* amounts.reduce((sum, amt) => sum + amt, 0)
SumOfAmounts(amounts) ==
    IF amounts = <<>> THEN Fin(0)
    ELSE NAdd(SumOfAmounts(SubSeq(amounts, 1, Len(amounts) - 1)),
              amounts[Len(amounts)])

\* dividendsBySymbolMonth[symbol][month]: the amounts paid for symbol in a
\* calendar month (from 0), in history order
AmountsIn(dividendHistory, symbol, month) ==
    LET paid == SelectSeq(dividendHistory,
                    LAMBDA d : d.symbol = symbol /\ d.date[2] - 1 = month)
    IN  [k \in 1..Len(paid) |-> Fin(paid[k].amount)]

\* the earlier function's holdings.forEach callback: each month with
\* history gets the average amount paid in it
AverageHolding(projections, holding, dividendHistory, currentMonth) ==
    [k \in 1..12 |->
        LET amounts == AmountsIn(dividendHistory, holding.symbol,
                                 (currentMonth + k - 1) % 12)
        IN  IF amounts = <<>> THEN projections[k]
            ELSE [projections[k] EXCEPT
                    !.total = NAdd(@, NDiv(SumOfAmounts(amounts),
                                           Fin(Len(amounts))))]]

RECURSIVE AverageHoldings(_, _, _, _)
\* the earlier function's holdings.forEach
AverageHoldings(projections, holdings, dividendHistory, currentMonth) ==
    IF holdings = <<>> THEN projections
    ELSE AverageHoldings(AverageHolding(projections, Head(holdings),
                                        dividendHistory, currentMonth),
                         Tail(holdings), dividendHistory, currentMonth)

\* calculations.ts line 40
calculateDividendProjectionsFromHistory(holdings, dividendHistory, now) ==
    IF holdings = <<>> \/ dividendHistory = <<>>
    THEN InitialProjections(now)
    ELSE AverageHoldings(InitialProjections(now), holdings, dividendHistory,
                         now[2] - 1)

\* a holding as the projection reads it
IncomeHolding(symbol, shares, dividendAmount, annualIncome, frequency) ==
    [symbol |-> symbol, name |-> symbol, shares |-> Fin(shares),
     dividendAmount |-> Fin(dividendAmount),
     annualIncome |-> Fin(annualIncome), dividendFrequency |-> frequency]

\* holdings handed to the projection; YLD is a position row with a yield
\* but no estimated annual income (csvParser.ts lines 523-566):
\* dividendAmount 0, annualIncome from the yield
IncomeHoldingPool ==
    { IncomeHolding("MON", 10, 120, 120, "monthly"),
      IncomeHolding("QTR", 5, 100, 100, "quarterly"),
      IncomeHolding("SEM", 2, 50, 50, "semi-annual"),
      IncomeHolding("ANN", 1, 7, 7, "annual"),
      IncomeHolding("IRR", 3, 10, 10, "irregular"),
      IncomeHolding("YLD", 10, 0, 40, "quarterly") }

\* dividend histories handed to the projection
DividendHistoryChoices ==
    { <<>>,
      <<Dividend("d-1", "QTR", <<2023, 3, 15>>, 25)>>,
      <<Dividend("d-1", "QTR", <<2023, 3, 15>>, 25),
        Dividend("d-2", "QTR", <<2023, 6, 15>>, 25),
        Dividend("d-3", "QTR", <<2023, 9, 15>>, 26),
        Dividend("d-4", "QTR", <<2023, 12, 15>>, 24)>>,
      <<Dividend("d-1", "QTR", <<2023, 2, 15>>, 25),
        Dividend("d-2", "QTR", <<2023, 5, 15>>, 25),
        Dividend("d-3", "QTR", <<2023, 8, 15>>, 26),
        Dividend("d-4", "QTR", <<2023, 11, 15>>, 24)>>,
      <<Dividend("d-1", "QTR", <<2023, 1, 15>>, 25),
        Dividend("d-2", "QTR", <<2023, 2, 15>>, 25),
        Dividend("d-3", "MON", <<2023, 2, 15>>, 10),
        Dividend("d-4", "MON", <<2024, 2, 15>>, 12)>>,
      <<Dividend("d-1", "YLD", <<2023, 4, 15>>, 10),
        Dividend("d-2", "YLD", <<2023, 10, 15>>, 10)>>,
      <<Dividend("d-1", "QTR", <<2023, 2, 15>>, 25),
        Dividend("d-2", "QTR", <<2023, 5, 15>>, 25),
        Dividend("d-3", "QTR", <<2023, 8, 15>>, 26),
        Dividend("d-4", "QTR", <<2023, 10, 15>>, 24)>> }

\* new Date() at the call: every month of a year
ProjectionNowChoices == {<<2024, m, 15>> : m \in 1..12}

ProjectionInit ==
    /\ StoreInit /\ ReplayIdle
    /\ fn \in {"calculateDividendProjections",
               "calculateDividendProjectionsFromHistory"}
    /\ args \in {[holdings |-> hs, dividendHistory |-> ds, now |-> now] :
                    hs \in SeqsNoRepeat(IncomeHoldingPool, MaxStored),
                    ds \in DividendHistoryChoices,
                    now \in ProjectionNowChoices}
    /\ ret = <<>>

ProjectionCall ==
    /\ fn = "calculateDividendProjections" /\ ret = <<>>
    /\ ret' = <<calculateDividendProjections(args.holdings,
                    args.dividendHistory, args.now)>>
    /\ UNCHANGED <<storeVars, replayVars, fn, args>>

HistoryProjectionCall ==
    /\ fn = "calculateDividendProjectionsFromHistory" /\ ret = <<>>
    /\ ret' = <<calculateDividendProjectionsFromHistory(args.holdings,
                    args.dividendHistory, args.now)>>
    /\ UNCHANGED <<storeVars, replayVars, fn, args>>

ProjectionNext == ProjectionCall \/ HistoryProjectionCall

ProjectionSpec == ProjectionInit /\ [][ProjectionNext]_vars

RECURSIVE SumTotal(_)
\* the sum of the totals of a list of projection entries
SumTotal(projections) ==
    IF projections = <<>> THEN Fin(0)
    ELSE NAdd(projections[Len(projections)].total,
              SumTotal(SubSeq(projections, 1, Len(projections) - 1)))

\* the frequency-based projection has returned for a single holding of
\* positive annualIncome and one of the four cadences
SingleHoldingProjected ==
    /\ fn = "calculateDividendProjections" /\ ret # <<>>
    /\ Len(args.holdings) = 1
    /\ NGt(args.holdings[1].annualIncome, Fin(0))
    /\ args.holdings[1].dividendFrequency
           \in {"monthly", "quarterly", "semi-annual", "annual"}

\* C12: for a single holding with positive annualIncome and cadence monthly,
\* quarterly, semi-annual or annual, the 12 totals of the projection sum to
\* the holding's annualIncome, whatever the current month and the dividend
\* history.
C12_ProjectionSumsToAnnualIncome ==
    SingleHoldingProjected
        => SumTotal(ret[1]) = args.holdings[1].annualIncome

\* the year and the month (from 1) a "YYYY-MM" label names
LabelYear(label) == DigitsValue(SubSeq(label, 1, 4), 0)

LabelMonth(label) == DigitsValue(SubSeq(label, 6, 7), 0)

\* a projection function has returned
ProjectionReturned ==
    /\ fn \in {"calculateDividendProjections",
               "calculateDividendProjectionsFromHistory"}
    /\ ret # <<>>

----------------------------------------------------------------------------
(* The SPLIT step of the replay *)

\* the next forEach iteration is a SPLIT of a symbol
SplitStep ==
    /\ CanStep
    /\ ToUpperCase(sortedTransactions[idx].type) = "SPLIT"
    /\ sortedTransactions[idx].symbol # ""

\* the holding of tx's symbol as the iteration finds or creates it
HeldBefore(map, tx) ==
    IF IndexOfSymbol(map, tx.symbol) = 0 THEN NewHolding(tx)
    ELSE map[IndexOfSymbol(map, tx.symbol)]

\* C21: a SPLIT whose price carries a ratio r > 0 multiplies the symbol's
\* shares by r, divides costPerShare by r and leaves totalCost alone; a SPLIT
\* with price 0 changes none of the three
C21_SplitScalesSharesAndCost ==
    [][(SplitStep /\ idx' = idx + 1) =>
        LET tx == sortedTransactions[idx]
            before == HeldBefore(holdingsMap, tx)
            after == holdingsMap'[IndexOfSymbol(holdingsMap', tx.symbol)]
        IN  IF tx.price > 0
            THEN /\ after.shares = before.shares * tx.price
                 /\ after.costPerShare
                       = NDiv(before.costPerShare, Fin(tx.price))
                 /\ after.totalCost = before.totalCost
            ELSE /\ after.shares = before.shares
                 /\ after.costPerShare = before.costPerShare
                 /\ after.totalCost = before.totalCost]_vars

\* the replay has just split 10 AAPL shares bought for 1000 two for one: 20
\* shares at 50 a share, the cost still 1000
C21_Witness ==
    /\ rpc = "replay" /\ idx > 1
    /\ ToUpperCase(sortedTransactions[idx - 1].type) = "SPLIT"
    /\ sortedTransactions[idx - 1].price = 2
    /\ \E i \in 1..Len(holdingsMap) :
          /\ holdingsMap[i].symbol = sortedTransactions[idx - 1].symbol
          /\ holdingsMap[i].shares = 20
          /\ holdingsMap[i].costPerShare = Fin(50)
          /\ holdingsMap[i].totalCost = Fin(1000)

----------------------------------------------------------------------------
(* The cost fields of the holdings the replay returns *)

\* C22: every holding the replay returns has costBasis equal to its shares
\* times its costPerShare
C22_CostBasisIsSharesTimesCostPerShare ==
    rpc = "done" =>
        \A i \in 1..Len(result) :
            result[i].costBasis
                = NMul(Fin(result[i].shares), result[i].costPerShare)

----------------------------------------------------------------------------
(* The order of the replay *)

\* a date string that new Date() cannot parse (an empty date cell, which
\* parseTransactionHistoryCSV passes on): getTime() is NaN
InvalidDate == <<0, 0, 0>>

\* the sort's comparator as Array.prototype.sort reads it: the difference of
\* the two times, a NaN difference counting as 0
CompareByDate(a, b) ==
    IF a.date = InvalidDate \/ b.date = InvalidDate THEN 0
    ELSE GetTime(a.date) - GetTime(b.date)

\* the comparator orders the list consistently
ConsistentComparator(list) ==
    \A i, j, k \in 1..Len(list) :
        (CompareByDate(list[i], list[j]) <= 0
            /\ CompareByDate(list[j], list[k]) <= 0)
                => CompareByDate(list[i], list[k]) <= 0

PermutationsOf(list) ==
    {q \in SeqsNoRepeat(Range(list), Len(list)) : Len(q) = Len(list)}

\* what [...transactions].sort(comparator) can return: the stable ascending
\* order for a consistent comparator (with an unparseable date present that
\* is the list itself, every comparison being 0), an order the engine
\* chooses for an inconsistent one
SortOutcomes(list) ==
    IF \A i \in 1..Len(list) : list[i].date # InvalidDate
    THEN {SortByDate(list)}
    ELSE IF ConsistentComparator(list) THEN {list}
    ELSE PermutationsOf(list)

\* the transactions the order of the replay is exercised on: two of them of
\* one symbol on one day, one without a date
OrderTxPool ==
    {TxPool[1], TxPool[2], TxPool[3], TxPool[5], TxPool[7],
     Tx("t-undated", InvalidDate, "BUY", "MSFT", 2, 300, 600)}

OrderInit ==
    /\ StoreInit /\ ReplayIdle
    /\ fn = "calculateHoldingsFromTransactions"
    /\ args \in {[transactions |-> ts] : ts \in SeqsNoRepeat(OrderTxPool, MaxTx)}
    /\ ret = <<>>

\* one call: the sort, the replay of the sorted list, the tail
OrderedReplayCall ==
    /\ fn = "calculateHoldingsFromTransactions" /\ ret = <<>>
    /\ \E sorted \in SortOutcomes(args.transactions) :
          ret' = <<[sorted |-> sorted,
                    holdings |-> IF args.transactions = <<>> THEN <<>>
                                 ELSE FinishHoldings(ReplayAll(<<>>, sorted))]>>
    /\ UNCHANGED <<fn, args, storeVars, replayVars>>

OrderSpec == OrderInit /\ [][OrderedReplayCall]_vars

\* no two transactions of one symbol carry the same date
NoSharedDate(list) ==
    \A i, j \in 1..Len(list) :
        (i # j /\ list[i].symbol = list[j].symbol)
            => list[i].date # list[j].date

\* shares, totalCost, costPerShare and currentPrice per symbol
CostFields(hs) ==
    {<<hs[i].symbol, hs[i].shares, hs[i].totalCost, hs[i].costPerShare,
       hs[i].currentPrice>> : i \in 1..Len(hs)}

\* the list is ascending by date, and transactions of one date stand in the
\* order they have in the input
AscendingKeepingTies(sorted, list) ==
    /\ IsPermutationOf(sorted, list)
    /\ \A i, j \in 1..Len(sorted) :
          i < j =>
            /\ CompareByDate(sorted[i], sorted[j]) <= 0
            /\ \A m, n \in 1..Len(list) :
                  (list[m] = sorted[i] /\ list[n] = sorted[j]
                      /\ sorted[i].date = sorted[j].date) => m < n

\* the claim of C23 for the call that has returned
ReplayOrderIndependent ==
    /\ AscendingKeepingTies(ret[1].sorted, args.transactions)
    /\ NoSharedDate(args.transactions) =>
          \A q \in PermutationsOf(args.transactions) :
              \A sorted \in SortOutcomes(q) :
                  CostFields(FinishHoldings(ReplayAll(<<>>, sorted)))
                      = CostFields(ret[1].holdings)

\* C23: the replay runs in ascending date order whatever the input order:
\* the sorted list is ascending with equal dates in input order, and every
\* permutation of an input in which no two transactions of one symbol share
\* a date returns the same shares, totalCost, costPerShare and currentPrice
\* per symbol
C23_ReplayInDateOrder ==
    (fn = "calculateHoldingsFromTransactions" /\ ret # <<>>
         /\ args.transactions # <<>>) => ReplayOrderIndependent

\* the same for the lists in which every date can be parsed
ReplayInDateOrderWhenDated ==
    (fn = "calculateHoldingsFromTransactions" /\ ret # <<>>
         /\ args.transactions # <<>>
         /\ \A i \in 1..Len(args.transactions) :
                args.transactions[i].date # InvalidDate)
        => ReplayOrderIndependent

----------------------------------------------------------------------------
(* determineDividendFrequency (transactionParser.ts) *)

\* the longest dividend history the cadence detection is exercised on
MaxPayments == 3

\* dividends.filter(d => d.symbol === symbol)
SymbolDividends(dividends, symbol) ==
    SelectSeq(dividends, LAMBDA d : d.symbol = symbol)

\* (currDate.getFullYear() - prevDate.getFullYear()) * 12
\*     + (currDate.getMonth() - prevDate.getMonth()); NaN for a date that
\* does not parse
MonthsDiff(prevDate, currDate) ==
    IF prevDate = InvalidDate \/ currDate = InvalidDate THEN NaN
    ELSE Fin((currDate[1] - prevDate[1]) * 12 + (currDate[2] - prevDate[2]))

\* the intervals between consecutive payments of the sorted list
Intervals(sortedDividends) ==
    [i \in 1..(Len(sortedDividends) - 1) |->
        MonthsDiff(sortedDividends[i].date, sortedDividends[i + 1].date)]

\* intervals.reduce(sum) / intervals.length
AverageInterval(sortedDividends) ==
    NDiv(SumOfAmounts(Intervals(sortedDividends)),
         Fin(Len(sortedDividends) - 1))

\* the thresholds read with < in place of <=
FrequencyOfIntervalStrict(avgInterval) ==
    IF NGt(Rat(3, 2), avgInterval) THEN "monthly"
    ELSE IF NGt(Fin(4), avgInterval) THEN "quarterly"
    ELSE IF NGt(Fin(8), avgInterval) THEN "semi-annual"
    ELSE "annual"

\* the if-chain on avgInterval
FrequencyOfInterval(avgInterval) ==
    IF NLe(avgInterval, Rat(3, 2)) THEN "monthly"
    ELSE IF NLe(avgInterval, Fin(4)) THEN "quarterly"
    ELSE IF NLe(avgInterval, Fin(8)) THEN "semi-annual"
    ELSE "annual"

\* the results determineDividendFrequency(dividends, symbol) can give: one
\* for each order the sort can leave the payments in
determineDividendFrequency(dividends, symbol) ==
    IF Len(SymbolDividends(dividends, symbol)) <= 1 THEN {"quarterly"}
    ELSE {FrequencyOfInterval(AverageInterval(sortedDividends)) :
             sortedDividends \in
                 SortOutcomes(SymbolDividends(dividends, symbol))}

\* payments of KO one, two, four, eight, eleven and twelve months apart, a
\* payment of another symbol and a payment without a date
PaymentPool ==
    { Dividend("p-jan", "KO", <<2023, 1, 15>>, 10),
      Dividend("p-feb", "KO", <<2023, 2, 15>>, 10),
      Dividend("p-apr", "KO", <<2023, 4, 14>>, 11),
      Dividend("p-aug", "KO", <<2023, 8, 15>>, 11),
      Dividend("p-dec", "KO", <<2023, 12, 15>>, 12),
      Dividend("p-jan2", "KO", <<2024, 1, 2>>, 12),
      Dividend("p-pep", "PEP", <<2023, 6, 30>>, 20),
      Dividend("p-undated", "KO", InvalidDate, 10) }

FrequencyInit ==
    /\ StoreInit /\ ReplayIdle
    /\ fn = "determineDividendFrequency"
    /\ args \in {[dividends |-> ds, symbol |-> "KO"] :
                    ds \in SeqsNoRepeat(PaymentPool, MaxPayments)}
    /\ ret = <<>>

FrequencyCall ==
    /\ fn = "determineDividendFrequency" /\ ret = <<>>
    /\ \E frequency \in determineDividendFrequency(args.dividends, args.symbol) :
          ret' = <<frequency>>
    /\ UNCHANGED <<fn, args, storeVars, replayVars>>

FrequencySpec == FrequencyInit /\ [][FrequencyCall]_vars

\* the frequency the claim gives for an average gap
ClaimedFrequency(average, frequency) ==
    /\ NLe(average, Rat(3, 2)) => frequency = "monthly"
    /\ (NGt(average, Rat(3, 2)) /\ NLe(average, Fin(4)))
          => frequency = "quarterly"
    /\ (NGt(average, Fin(4)) /\ NLe(average, Fin(8)))
          => frequency = "semi-annual"
    /\ NGt(average, Fin(8)) => frequency = "annual"

\* C24: fewer than 2 payments of the symbol give quarterly; otherwise the
\* average month gap between date-sorted consecutive payments gives monthly
\* up to 1.5, quarterly up to 4, semi-annual up to 8 and annual above 8
C24_CadenceByAverageGap ==
    (fn = "determineDividendFrequency" /\ ret # <<>>) =>
        LET paid == SymbolDividends(args.dividends, args.symbol)
        IN  IF Len(paid) < 2 THEN ret[1] = "quarterly"
            ELSE \A sorted \in SortOutcomes(paid) :
                     ClaimedFrequency(AverageInterval(sorted), ret[1])

\* three payments one and two months apart, given in another order: the
\* average gap is exactly 1.5 and the answer monthly
C24_Witness ==
    /\ fn = "determineDividendFrequency" /\ ret = <<"monthly">>
    /\ Len(args.dividends) = 3
    /\ args.dividends # SortByDate(args.dividends)
    /\ \A i \in 1..3 : args.dividends[i].date # InvalidDate
    /\ AverageInterval(SortByDate(args.dividends)) = Rat(3, 2)

----------------------------------------------------------------------------
(* Annual income from the dividend history: calculateDividendMetrics
   (calculations.ts) and calculateAnnualDividends (transactionParser.ts) *)

\* `${date.getFullYear()}-${date.getMonth() + 1}` of every payment, as a set
MonthBuckets(payments) ==
    {<<payments[i].date[1], payments[i].date[2]>> : i \in 1..Len(payments)}

\* dividend.amount of every payment
PaymentAmounts(payments) == [i \in 1..Len(payments) |-> Fin(payments[i].amount)]

\* the frequency the payment count is taken to mean
FrequencyOfCount(paymentCount) ==
    IF paymentCount > 9 THEN 12
    ELSE IF paymentCount > 3 THEN 4
    ELSE IF paymentCount > 1 THEN 2
    ELSE 1

\* dividendsBySymbol[symbol].annualRate for a symbol that has payments
AnnualRate(payments) ==
    LET totalAmount == SumOfAmounts(PaymentAmounts(payments))
        paymentCount == Cardinality(MonthBuckets(payments))
    IN  IF paymentCount >= 12 THEN totalAmount
        ELSE NMul(NDiv(totalAmount, Fin(paymentCount)),
                  Fin(FrequencyOfCount(paymentCount)))

\* the holding with the dividend information of its symbol
WithDividendInfo(holding, dividends) ==
    LET payments == SymbolDividends(dividends, holding.symbol)
    IN  IF payments = <<>> THEN holding
        ELSE [holding EXCEPT
                 !.annualIncome = AnnualRate(payments),
                 !.dividendYield =
                     IF holding.currentValue > 0
                     THEN NMul(NDiv(AnnualRate(payments),
                                    Fin(holding.currentValue)), Fin(100))
                     ELSE Fin(0),
                 !.dividendAmount = AnnualRate(payments)]

calculateDividendMetrics(holdings, dividends) ==
    IF holdings = <<>> \/ dividends = <<>> THEN holdings
    ELSE [i \in 1..Len(holdings) |-> WithDividendInfo(holdings[i], dividends)]

\* dividendsByYear[year]
PaidInYear(payments, year) ==
    SumOfAmounts(PaymentAmounts(
        SelectSeq(payments, LAMBDA d : d.date[1] = year)))

SetMax(S) == CHOOSE x \in S : \A y \in S : y <= x

\* the year whose total is returned: the latest year before the current one
\* that has payments, the current year when there is none from 2000 on
MostRecentYear(years, currentYear) ==
    LET complete == {y \in years : y < currentYear}
    IN  IF complete = {} THEN currentYear
        ELSE IF SetMax(complete) < 2000 THEN currentYear
        ELSE SetMax(complete)

calculateAnnualDividends(dividends, symbol, now) ==
    LET symbolDividends == SymbolDividends(dividends, symbol)
        years == {symbolDividends[i].date[1] : i \in 1..Len(symbolDividends)}
        mostRecentYear == MostRecentYear(years, now[1])
    IN  IF symbolDividends = <<>> THEN Fin(0)
        ELSE IF ~Falsy(PaidInYear(symbolDividends, mostRecentYear))
        THEN PaidInYear(symbolDividends, mostRecentYear)
        ELSE NDiv(SumOfAmounts(PaymentAmounts(symbolDividends)),
                  Fin(Cardinality(years)))

\* a quarterly payer with three years of history: 12 payments of 25
QuarterlyThreeYears ==
    [i \in 1..12 |->
        Dividend("q-" \o ToString(i), "KO",
                 <<2021 + ((i - 1) \div 4), 3 * ((i - 1) % 4) + 3, 15>>, 25)]

\* a monthly payer with 14 months of history: 14 payments of 10
MonthlyFourteen ==
    [i \in 1..14 |->
        Dividend("m-" \o ToString(i), "KO",
                 <<2022 + ((i + 10) \div 12), ((i + 10) % 12) + 1, 15>>, 10)]

\* two payments in one calendar month
SameMonthTwice ==
    << Dividend("s-1", "KO", <<2023, 5, 2>>, 10),
       Dividend("s-2", "KO", <<2023, 5, 30>>, 10) >>

AnnualizeHistories ==
    SeqsNoRepeat(PaymentPool \ {Dividend("p-undated", "KO", InvalidDate, 10)},
                 MaxPayments)
        \cup {QuarterlyThreeYears, MonthlyFourteen, SameMonthTwice}

\* the holding of the symbol before the dividend metrics are filled in
AnnualizeHolding ==
    [symbol |-> "KO", currentValue |-> 1000, annualIncome |-> Fin(0),
     dividendYield |-> Fin(0), dividendAmount |-> Fin(0)]

AnnualizeInit ==
    /\ StoreInit /\ ReplayIdle
    /\ fn \in {"calculateDividendMetrics", "calculateAnnualDividends"}
    /\ args \in {[holdings |-> <<AnnualizeHolding>>, dividends |-> ds,
                   symbol |-> "KO", now |-> now] :
                    ds \in AnnualizeHistories,
                    now \in {<<2024, 2, 1>>, <<2025, 1, 10>>}}
    /\ ret = <<>>

MetricsCall ==
    /\ fn = "calculateDividendMetrics" /\ ret = <<>>
    /\ ret' = <<calculateDividendMetrics(args.holdings, args.dividends)[1]
                    .annualIncome>>
    /\ UNCHANGED <<fn, args, storeVars, replayVars>>

AnnualDividendsCall ==
    /\ fn = "calculateAnnualDividends" /\ ret = <<>>
    /\ ret' = <<calculateAnnualDividends(args.dividends, args.symbol, args.now)>>
    /\ UNCHANGED <<fn, args, storeVars, replayVars>>

AnnualizeNext == MetricsCall \/ AnnualDividendsCall

AnnualizeSpec == AnnualizeInit /\ [][AnnualizeNext]_vars

\* the payments dated within the 12 months that end at now
TrailingTwelveMonths(payments, now) ==
    SelectSeq(payments,
              LAMBDA d : /\ GetTime(d.date) <= GetTime(now)
                         /\ GetTime(d.date) > GetTime(<<now[1] - 1, now[2], now[3]>>))

PaymentsPerYear(cadence) ==
    CASE cadence = "monthly" -> 12
      [] cadence = "quarterly" -> 4
      [] cadence = "semi-annual" -> 2
      [] OTHER -> 1

\* the annual income the claim gives a symbol with these payments
ClaimedAnnualIncome(payments, now) ==
    IF Cardinality(MonthBuckets(payments)) >= 12
    THEN {SumOfAmounts(PaymentAmounts(TrailingTwelveMonths(payments, now)))}
    ELSE {NMul(NDiv(SumOfAmounts(PaymentAmounts(payments)), Fin(Len(payments))),
               Fin(PaymentsPerYear(cadence))) :
             cadence \in determineDividendFrequency(payments, "KO")}

\* C25: the annual income of a symbol with payments is the sum of its
\* payments of the trailing 12 months when the history has at least 12 distinct
\* month-buckets, and otherwise the average amount per payment times the
\* payments per year of the detected cadence
C25_AnnualIncomeByHistory ==
    (fn \in {"calculateDividendMetrics", "calculateAnnualDividends"}
        /\ ret # <<>>
        /\ SymbolDividends(args.dividends, args.symbol) # <<>>) =>
        ret[1] \in ClaimedAnnualIncome(
                       SymbolDividends(args.dividends, args.symbol), args.now)

----------------------------------------------------------------------------
(* The months of a quarterly holding in the projection *)

\* the calendar months (from 0) in which the history shows payments of symbol
HistoryMonths(symbol, dividendHistory) ==
    {dividendHistory[k].date[2] - 1 :
        k \in {j \in 1..Len(dividendHistory) :
                  dividendHistory[j].symbol = symbol}}

\* the window positions (from 0, the current month) the claim puts a
\* quarterly holding's payments in
ClaimedQuarterPositions(symbol, dividendHistory, currentMonth) ==
    LET months == HistoryMonths(symbol, dividendHistory)
    IN  IF /\ Cardinality(months) = 4
           /\ \A a, b \in months : a # b => Abs(a - b) >= 2
        THEN {i \in 0..11 : (currentMonth + i) % 12 \in months}
        ELSE {0, 3, 6, 9}

\* the frequency-based projection has returned for a single quarterly
\* holding that passes the gate on dividendAmount and shares
QuarterlyHoldingProjected ==
    /\ fn = "calculateDividendProjections" /\ ret # <<>>
    /\ Len(args.holdings) = 1
    /\ args.holdings[1].dividendFrequency = "quarterly"
    /\ NGt(args.holdings[1].dividendAmount, Fin(0))
    /\ NGt(args.holdings[1].shares, Fin(0))

\* C26: a quarterly holding puts annualIncome / 4 into the window entries of
\* the months its history shows, when those are exactly 4 distinct months
\* each at least 2 apart, and otherwise into entries 0, 3, 6 and 9 counted
\* from the current month; every other entry gets 0 from it
C26_QuarterlyPlacement ==
    QuarterlyHoldingProjected =>
        \A k \in 1..12 :
            ret[1][k].total =
                IF (k - 1) \in ClaimedQuarterPositions(
                                   args.holdings[1].symbol,
                                   args.dividendHistory, args.now[2] - 1)
                THEN NDiv(args.holdings[1].annualIncome, Fin(4))
                ELSE Fin(0)

\* the same for the calls in which the history's months sort alike as
\* numbers and as strings and the current month is January, April, July or
\* October
QuarterlyPlacementWhenAligned ==
    (QuarterlyHoldingProjected
        /\ (args.now[2] - 1) % 3 = 0
        /\ HistoryMonths(args.holdings[1].symbol, args.dividendHistory)
               \cap {10, 11} = {})
        => C26_QuarterlyPlacement

----------------------------------------------------------------------------
(* dataMigration.ts *)

\* the keys of both storage patterns
AllStorageKeys == StorageKeys \cup {"holdings", "transactions"}

\* a stored text that JSON.parse rejects
Unparseable == [present |-> TRUE, json |-> <<[unparseable |-> TRUE]>>]

\* the result of a migration run: what it returned and what it left stored
Migrated(ok, store) == [ok |-> ok, store |-> store]

\* holdingsNew || holdingsOld: the namespaced key read first
MigrationSourceNewFirst(old, new) == IF new.present THEN new ELSE old

\* holdingsOld || holdingsNew (|| '[]' is not reached under the if)
MigrationSource(old, new) == IF old.present THEN old ELSE new

\* one "Migrate ..." block: both keys get the re-stringified source; the
\* values were read before the first block ran
MigrateKeys(read, store, oldKey, newKey) ==
    LET text == Stringify(JsonParse(MigrationSource(read[oldKey], read[newKey])))
    IN  [store EXCEPT ![oldKey] = text, ![newKey] = text]

\* the block is entered and its JSON.parse throws
MigrateThrows(read, oldKey, newKey) ==
    /\ read[oldKey].present \/ read[newKey].present
    /\ MigrationSource(read[oldKey], read[newKey]) = Unparseable

\* the store after the holdings block
AfterHoldings(store) ==
    IF store["holdings"].present \/ store["portfolio-holdings"].present
    THEN MigrateKeys(store, store, "holdings", "portfolio-holdings")
    ELSE store

\* the store after the transactions block
AfterTransactions(read, store) ==
    IF read["transactions"].present \/ read["portfolio-transactions"].present
    THEN MigrateKeys(read, store, "transactions", "portfolio-transactions")
    ELSE store

\* the store after the dividends block
AfterDividends(read, store) ==
    IF read["portfolio-dividends"].present
    THEN [store EXCEPT !["portfolio-dividends"] =
                           Stringify(JsonParse(read["portfolio-dividends"]))]
    ELSE store

\* try { ... return true } catch { return false }: a throw leaves the writes
\* of the blocks before it
migratePortfolioData(store) ==
    IF MigrateThrows(store, "holdings", "portfolio-holdings")
    THEN Migrated(FALSE, store)
    ELSE IF MigrateThrows(store, "transactions", "portfolio-transactions")
    THEN Migrated(FALSE, AfterHoldings(store))
    ELSE IF store["portfolio-dividends"] = Unparseable
    THEN Migrated(FALSE, AfterTransactions(store, AfterHoldings(store)))
    ELSE Migrated(TRUE, AfterDividends(store,
                            AfterTransactions(store, AfterHoldings(store))))

hasAnyPortfolioData(store) == \E k \in AllStorageKeys : store[k].present

runStartupDataMigration(store) ==
    IF hasAnyPortfolioData(store) THEN migratePortfolioData(store)
    ELSE Migrated(FALSE, store)

\* what a holdings key can hold
StoredHoldingsTexts ==
    {Null, Stringify(<<>>), StringifyHoldings(Parsed("posA").holdings),
     StringifyHoldings(Parsed("posB").holdings), Unparseable}

\* what a transactions key can hold
StoredTransactionsTexts ==
    {Null, Stringify(<<>>), Stringify(Parsed("txF").transactions),
     Unparseable}

\* what the dividends key can hold
StoredDividendsTexts ==
    {Null, Stringify(Parsed("posA").dividends), Unparseable}

StoreOf(h, ph, t, pt, pd) ==
    [k \in AllStorageKeys |->
        CASE k = "holdings" -> h
          [] k = "portfolio-holdings" -> ph
          [] k = "transactions" -> t
          [] k = "portfolio-transactions" -> pt
          [] OTHER -> pd]

MigrationInit ==
    /\ ls \in {StoreOf(h, ph, t, pt, pd) :
                  h \in StoredHoldingsTexts, ph \in StoredHoldingsTexts,
                  t \in StoredTransactionsTexts,
                  pt \in StoredTransactionsTexts,
                  pd \in StoredDividendsTexts}
    /\ mem = EmptyData /\ ctx = EmptyContext
    /\ imp = [p \in Procs |-> IdleCall]
    /\ uuidCount = 0 /\ hist = <<>> /\ nImports = 0
    /\ ReplayIdle
    /\ fn = "migratePortfolioData" /\ args = [before |-> ls] /\ ret = <<>>

\* one call of migratePortfolioData on the store as it is
MigrationCall ==
    /\ fn = "migratePortfolioData" /\ ret = <<>>
    /\ ls' = migratePortfolioData(ls).store
    /\ ret' = <<migratePortfolioData(ls).ok>>
    /\ UNCHANGED <<mem, ctx, imp, uuidCount, hist, nImports, replayVars,
                   fn, args>>

MigrationSpec == MigrationInit /\ [][MigrationCall]_vars

\* the two keys hold the same content: that of the legacy key when it
\* existed before, else that of the namespaced key
KeysConsolidated(before, after, oldKey, newKey) ==
    (before[oldKey].present \/ before[newKey].present) =>
        /\ after[oldKey] = after[newKey]
        /\ after[oldKey] = IF before[oldKey].present THEN before[oldKey]
                           ELSE before[newKey]

\* C30: after migratePortfolioData returns true, 'holdings' and
\* 'portfolio-holdings' hold equal content whenever either existed before,
\* and so do 'transactions' and 'portfolio-transactions'; the content is the
\* legacy key's when that existed, else the namespaced key's; the content of
\* 'portfolio-dividends' is what it was
C30_MigrationConsolidatesKeys ==
    (fn = "migratePortfolioData" /\ ret = <<TRUE>>) =>
        /\ KeysConsolidated(args.before, ls, "holdings", "portfolio-holdings")
        /\ KeysConsolidated(args.before, ls, "transactions",
                            "portfolio-transactions")
        /\ ls["portfolio-dividends"] = args.before["portfolio-dividends"]

\* the migration has returned true on a store whose legacy holdings differed
\* from the namespaced ones and that had namespaced transactions only
C30_Witness ==
    /\ fn = "migratePortfolioData" /\ ret = <<TRUE>>
    /\ args.before["holdings"].present
    /\ args.before["portfolio-holdings"].present
    /\ args.before["holdings"] # args.before["portfolio-holdings"]
    /\ ~args.before["transactions"].present
    /\ args.before["portfolio-transactions"].present
    /\ ls["transactions"] = args.before["portfolio-transactions"]
    /\ ls["portfolio-holdings"] = args.before["holdings"]

----------------------------------------------------------------------------
(* PortfolioProvider (PortfolioContext.tsx), usePortfolio's mutators and the
   application restart *)

\* the provider of lines 36-112 keeps each list under the legacy and the
\* namespaced key ("both"); the provider of lines 152-208 under the legacy
\* key only ("legacy")
ProviderVariants == {"both", "legacy"}

HoldingsKeys(variant) ==
    IF variant = "both" THEN {"holdings", "portfolio-holdings"}
    ELSE {"holdings"}

TransactionsKeys(variant) ==
    IF variant = "both" THEN {"transactions", "portfolio-transactions"}
    ELSE {"transactions"}

\* getItem('holdings') || getItem('portfolio-holdings'), or the first alone
ProviderRead(variant, store, oldKey, newKey) ==
    IF variant = "both" THEN MigrationSource(store[oldKey], store[newKey])
    ELSE store[oldKey]

\* the load effect: the state after it, from the state before it
ProviderLoad(variant, store, context) ==
    LET storedHoldings ==
            ProviderRead(variant, store, "holdings", "portfolio-holdings")
        storedTransactions ==
            ProviderRead(variant, store, "transactions",
                         "portfolio-transactions")
    IN  [holdings |-> IF storedHoldings.present
                      THEN JsonParse(storedHoldings) ELSE context.holdings,
         transactions |-> IF storedTransactions.present
                          THEN JsonParse(storedTransactions)
                          ELSE context.transactions]

\* the save effect with the length > 0 tests left out
ProviderSaveAlways(variant, store, context) ==
    [k \in DOMAIN store |->
        IF k \in HoldingsKeys(variant)
        THEN StringifyHoldings(context.holdings)
        ELSE IF k \in TransactionsKeys(variant)
        THEN Stringify(context.transactions)
        ELSE store[k]]

\* the save effect: the store after it
ProviderSave(variant, store, context) ==
    [k \in DOMAIN store |->
        IF k \in HoldingsKeys(variant) /\ Len(context.holdings) > 0
        THEN StringifyHoldings(context.holdings)
        ELSE IF k \in TransactionsKeys(variant)
                  /\ Len(context.transactions) > 0
        THEN Stringify(context.transactions)
        ELSE store[k]]

\* removeItem of every key in keys
RemoveItems(store, keys) ==
    [k \in DOMAIN store |-> IF k \in keys THEN Null ELSE store[k]]

\* the lists the user's actions hand to the provider and to the hook
HoldingsChoices == {Parsed("posA").holdings, Parsed("posB").holdings}

TransactionsChoices == {Parsed("txF").transactions, Parsed("txG").transactions}

DividendsChoices == {Parsed("posA").dividends, Parsed("posB").dividends}

\* the application as first opened: nothing stored, nothing loaded; fn names
\* the provider in use and hist the user's operations since the last one
\* that changed data
LifecycleInit ==
    /\ ls = [k \in AllStorageKeys |-> Null]
    /\ mem = EmptyData /\ ctx = EmptyContext
    /\ imp = [p \in Procs |-> IdleCall]
    /\ uuidCount = 0 /\ hist = <<>> /\ nImports = 0
    /\ ReplayIdle
    /\ fn \in ProviderVariants /\ args = <<>> /\ ret = <<>>

LifecycleUnchanged ==
    UNCHANGED <<imp, uuidCount, nImports, replayVars, callVars>>

\* setHoldings(newHoldings), then the save effect
setHoldings(newHoldings) ==
    /\ ctx' = [ctx EXCEPT !.holdings = newHoldings]
    /\ ls' = ProviderSave(fn, ls, ctx')
    /\ hist' = <<"setHoldings">>
    /\ UNCHANGED mem /\ LifecycleUnchanged

\* setTransactions(newTransactions), then the save effect
setTransactions(newTransactions) ==
    /\ ctx' = [ctx EXCEPT !.transactions = newTransactions]
    /\ ls' = ProviderSave(fn, ls, ctx')
    /\ hist' = <<"setTransactions">>
    /\ UNCHANGED mem /\ LifecycleUnchanged

\* the provider's clearData, then the save effect
clearData ==
    /\ ctx' = EmptyContext
    /\ ls' = ProviderSave(fn, RemoveItems(ls, HoldingsKeys(fn)
                                              \cup TransactionsKeys(fn)), ctx')
    /\ hist' = <<"clearData">>
    /\ UNCHANGED mem /\ LifecycleUnchanged

\* usePortfolio's addHoldings, addDividends and addTransactions
addRecords(field, key, newRecords) ==
    /\ mem' = [mem EXCEPT ![field] = mergeArraysById(mem[field], newRecords)]
    /\ ls' = [ls EXCEPT ![key] =
                  IF field = "holdings" THEN StringifyHoldings(mem'[field])
                  ELSE Stringify(mem'[field])]
    /\ hist' = <<"add">>
    /\ UNCHANGED ctx /\ LifecycleUnchanged

\* usePortfolio's clearPortfolioData
clearPortfolioData ==
    /\ ls' = RemoveItems(ls, StorageKeys)
    /\ mem' = EmptyData
    /\ hist' = <<"clearPortfolioData">>
    /\ UNCHANGED ctx /\ LifecycleUnchanged

\* a clear is the last operation on the data
ClearedLast ==
    hist # <<>> /\ hist[1] \in {"clearData", "clearPortfolioData"}

\* the application is closed and opened again: the startup migration, the
\* load effects of the hook and of the provider on mount, and the
\* provider's save effect on what it loaded
Restart ==
    /\ LET migrated == runStartupDataMigration(ls).store
           loaded == ProviderLoad(fn, migrated, EmptyContext)
       IN  /\ mem' = LoadExistingData(migrated)
           /\ ctx' = loaded
           /\ ls' = ProviderSave(fn, migrated, loaded)
    /\ hist' = IF ClearedLast THEN <<hist[1], "restart">> ELSE <<"restart">>
    /\ LifecycleUnchanged

LifecycleNext ==
    \/ \E hs \in HoldingsChoices \cup {<<>>} : setHoldings(hs)
    \/ \E ts \in TransactionsChoices \cup {<<>>} : setTransactions(ts)
    \/ clearData
    \/ \E hs \in HoldingsChoices :
          addRecords("holdings", "portfolio-holdings", hs)
    \/ \E ds \in DividendsChoices :
          addRecords("dividends", "portfolio-dividends", ds)
    \/ \E ts \in TransactionsChoices :
          addRecords("transactions", "portfolio-transactions", ts)
    \/ clearPortfolioData
    \/ Restart

LifecycleSpec == LifecycleInit /\ [][LifecycleNext]_vars

\* nothing in the memory of the hook or of the provider, and no record
\* under any storage key
NothingLeft ==
    /\ mem = EmptyData
    /\ ctx = EmptyContext
    /\ \A k \in DOMAIN ls : ParseOrEmpty(ls[k]) = <<>>

\* C27: once clearPortfolioData or clearData has run and no data has been
\* added since, a restart (startup migration, load effects) leaves holdings,
\* transactions and dividends empty in memory and under every storage key
C27_ClearedStaysCleared ==
    (ClearedLast /\ Len(hist) = 2 /\ hist[2] = "restart") => NothingLeft

\* what the provider would load now is what it holds in memory
ProviderPersisted ==
    /\ \A k \in HoldingsKeys(fn) :
          ParseOrEmpty(ls[k]) = JsonParse(StringifyHoldings(ctx.holdings))
    /\ \A k \in TransactionsKeys(fn) :
          ParseOrEmpty(ls[k]) = ctx.transactions

\* C28: after a setHoldings or setTransactions call and its save effect, the
\* content under the provider's storage keys equals the lists in memory, an
\* empty list included
C28_SavedEqualsMemory ==
    (hist \in {<<"setHoldings">>, <<"setTransactions">>}) => ProviderPersisted

----------------------------------------------------------------------------
(* Two importHistoricalData calls at once *)

\* the two callers
Callers == {1, 2}

\* transactions stored before the first import: none, or one that is in
\* neither file
OverlapInit ==
    /\ ls \in {[k \in StorageKeys |->
                   IF k = "portfolio-transactions" THEN text ELSE Null] :
                  text \in {Null, Stringify(Parsed("posB").transactions)}}
    /\ mem = EmptyData /\ ctx = EmptyContext
    /\ imp = [p \in Callers |-> IdleCall]
    /\ uuidCount = 0 /\ hist = <<>> /\ nImports = 0
    /\ ReplayIdle
    /\ fn = "serial" /\ args = <<>> /\ ret = <<>>

\* importHistoricalData of a transaction file up to its first await, started
\* whether or not the other caller's import is still running; fn keeps
\* whether any import was started while another was in flight
OverlapStart(p, f) ==
    /\ imp[p].pc = "idle"
    /\ nImports < MaxImports
    /\ nImports' = nImports + 1
    /\ imp' = [imp EXCEPT ![p] = [pc |-> "parsing", file |-> f,
                                  existing |-> EmptyData, before |-> ls]]
    /\ fn' = IF \E q \in Callers : imp[q].pc # "idle" THEN "overlapped"
             ELSE fn
    /\ UNCHANGED <<ls, mem, ctx, uuidCount, hist, replayVars, args, ret>>

OverlapNext ==
    \/ \E p \in Callers, f \in {"txF", "txG"} : OverlapStart(p, f)
    \/ \E p \in Callers : ParseReturn(p)
    \/ \E p \in Callers, good \in 0..3 : MergeAndSave(p, good)

OverlapSpec == OverlapInit /\ [][OverlapNext]_vars

\* the last two imports have both returned success
TwoImportsSucceeded ==
    /\ Len(hist) = 2
    /\ hist[1].ok /\ hist[2].ok

\* up to the dedup key, the store the later import left holds every
\* transaction of both files and every transaction stored when either began
AllTransactionsKept ==
    \A i \in 1..2 :
        (TxFieldsOf(StoredTransactions(hist[i].before))
            \cup TxFieldsOf(Parsed(hist[i].file).transactions))
                \subseteq TxFieldsOf(StoredTransactions(hist[2].after))

====
